---------------------------- MODULE Spec2Model ----------------------------
(* Stocker (stock-flow): the per-user settings store, its server actions,  *)
(* and the invitation-based registration flow, as state machines over the  *)
(* Payload collections they read and write.                                *)
EXTENDS Integers, Sequences, FiniteSets, TLC

VARIABLES
    settings,     \* the 'settings' collection: a set of documents
    settingsSeq,  \* last id handed out by the 'settings' collection
    sproc,        \* in-flight settings requests: slot -> call frame
    calls,        \* number of settings requests started so far
    faults,       \* number of injected database failures so far
    served,       \* users some settings call has returned successfully for
    pureIn,       \* the pure function under evaluation and its arguments
    pureOut,      \* what it returned
    provider,     \* the SettingsProvider of one browser tab: its state, its ref, its pending calls
    users,        \* the 'users' collection
    userSeq,      \* last id handed out by the 'users' collection
    invitations,  \* the 'invitations' collection
    invSeq,       \* last id handed out by the 'invitations' collection
    now,          \* the clock, in milliseconds
    ticks,        \* number of times the clock has advanced
    rproc,        \* in-flight registerUser calls: slot -> call frame
    regCalls,     \* number of registerUser calls started so far
    api,          \* the answer to the last REST request on 'invitations'
    succeeded,    \* tokens some registerUser call has returned success for
    registered,   \* <<user id, invitation id>> of every user registerUser created
    records,      \* the owned-resource collections: a set of documents tagged by slug
    recSeq,       \* last id handed out by those collections
    lastRead,     \* the last REST read: who asked, of which collection, what came back
    settingsApi,  \* the last REST create or update on 'settings': who asked, the answer
    cookie,       \* the browser's 'payload-token' cookie (Null when absent)
    sessionOp,    \* the last loginUser / logout call: its input and what it returned
    response,     \* the middleware's answer to the last request
    env,          \* process.env: NODE_ENV and the FEATURE_* flags
    loggedOut,    \* TRUE from a logout until the next successful login
    ui            \* the column editor: its table, its initialColumns prop, its columns state

svars == <<settings, settingsSeq, sproc, calls, faults, served>>
pvars == <<pureIn, pureOut, provider>>
ivars == <<users, userSeq, invitations, invSeq, now, ticks, rproc, regCalls, api, succeeded,
           registered>>
avars == <<records, recSeq, lastRead, settingsApi>>
xvars == <<cookie, sessionOp, response, env, loggedOut, ui>>
vars == <<settings, settingsSeq, sproc, calls, faults, served, pureIn, pureOut,
          provider, users, userSeq, invitations, invSeq, now, ticks, rproc, regCalls, api, succeeded,
          registered, records, recSeq, lastRead, settingsApi, cookie, sessionOp, response, env,
          loggedOut, ui>>

\* What the operations of one part of the application leave alone.
exceptSettings == <<pvars, ivars, avars, xvars>>
exceptPure == <<svars, ivars, avars, xvars>>
exceptInvite == <<svars, pvars, avars, xvars>>
exceptAccess == <<svars, pvars, ivars, xvars>>

-----------------------------------------------------------------------------
(* Bounds of the model *)

RaceProcs == 3      \* concurrent getSettings calls in SpecRace
MaxCalls == 2       \* settings requests started in SpecSettings
MaxFaults == 1      \* database failures that are not uniqueness violations

UserIds == {1, 2}
NoUser == 0
SettingsProcs == {1, 2}

-----------------------------------------------------------------------------
(* src/lib/constants/table-columns.ts *)

TableNames == {"products", "clients", "sales", "assignments", "history", "sellers"}

TABLE_COLUMNS ==
    [products    |-> <<"name", "code", "brand", "category", "quality", "stock", "price">>,
     clients     |-> <<"name", "cuit", "phone", "email", "address">>,
     sales       |-> <<"date", "client", "total", "paymentMethod", "status", "items">>,
     assignments |-> <<"date", "seller", "status", "items", "notes">>,
     history     |-> <<"date", "product", "type", "quantity", "reason", "reference">>,
     sellers     |-> <<"name", "email", "phone", "isActive", "createdAt">>]

DEFAULT_COLUMNS ==
    [products    |-> <<"name", "code", "stock", "price">>,
     clients     |-> <<"name", "phone", "email">>,
     sales       |-> <<"date", "client", "total", "status">>,
     assignments |-> <<"date", "seller", "status">>,
     history     |-> <<"date", "product", "type", "quantity">>,
     sellers     |-> <<"name", "email", "isActive">>]

MINIMUM_COLUMNS ==
    [products    |-> <<"name", "stock", "brand">>,
     clients     |-> <<"name", "phone", "email">>,
     sales       |-> <<"date", "client", "total">>,
     assignments |-> <<"date", "seller", "status">>,
     history     |-> <<"date", "product", "type", "quantity">>,
     sellers     |-> <<"name", "email", "isActive">>]

ITEMS_PER_PAGE_OPTIONS == <<10, 25, 50, 100>>

DEFAULT_ITEMS_PER_PAGE == 10

-----------------------------------------------------------------------------
(* JavaScript helpers. A string that the code parses or formats is kept as *)
(* the sequence of its characters.                                         *)

Range(s) == {s[i] : i \in DOMAIN s}

DigitChar(d) ==
    CASE d = 0 -> "0" [] d = 1 -> "1" [] d = 2 -> "2" [] d = 3 -> "3" [] d = 4 -> "4"
      [] d = 5 -> "5" [] d = 6 -> "6" [] d = 7 -> "7" [] d = 8 -> "8" [] d = 9 -> "9"

RECURSIVE NumberToString(_)
\* Number.prototype.toString() of a non-negative integer
NumberToString(n) ==
    IF n < 10 THEN <<DigitChar(n)>>
    ELSE NumberToString(n \div 10) \o <<DigitChar(n % 10)>>

\* columns.map((col) => ({ column: col }))
ToRows(columns) == [i \in DOMAIN columns |-> [column |-> columns[i]]]

\* rows.map((item) => item.column)
FromRows(rows) == [i \in DOMAIN rows |-> rows[i].column]

\* `${tableName}Columns`
FieldName(tableName) == tableName \o "Columns"

ColumnFields == {FieldName(t) : t \in TableNames}

\* The value the code sees for 'no settings' (null).
Null == [null |-> TRUE]

\* The outcome of a call: pending, a returned value, or an error message.
NoRet == [status |-> "none", error |-> "", value |-> <<>>]

Returned(value) == [status |-> "ok", error |-> "", value |-> value]

Threw(message) == [status |-> "error", error |-> message, value |-> <<>>]

\* No SettingsProvider is rendered.
NoProvider == [rendered |-> FALSE]

\* No pure function is under evaluation.
PureIdle == pureIn = [fn |-> "none"] /\ pureOut = <<>> /\ provider = NoProvider

-----------------------------------------------------------------------------
(* Users and invitations (src/collections/Users.ts, Invitations.ts)         *)

RegProcs == {1, 2}
MaxRegs == 2          \* registerUser calls started
MaxInvitations == 2   \* invitations created
MaxTicks == 2         \* advances of the clock

\* 7 * 24 * 60 * 60 * 1000
SevenDays == 7 * 24 * 60 * 60 * 1000

\* The clock advances by a millisecond or by a millisecond less than seven days.
TickSteps == {1, SevenDays - 1}

Emails == {"ana@mail.com", "bob@mail.com"}

\* randomBytes(32).toString('hex'): any value of the generator
RandomTokens == {"a1f3", "9c0e"}

\* The users that exist before any invitation: an admin and an owner.
InitialUsers ==
    {[id |-> 1, name |-> <<"A", "d", "a">>, email |-> "admin@stocker.com", role |-> "admin"],
     [id |-> 2, name |-> <<"O", "t", "o">>, email |-> "owner@stocker.com", role |-> "owner"]}

NoFrame ==
    [pc |-> "idle", input |-> <<>>, invitation |-> Null, ret |-> NoRet, did |-> {},
     late |-> FALSE, seen |-> <<>>]

NoAnswer == [status |-> "none", error |-> "", by |-> "", role |-> ""]

\* No user has been invited and no registerUser call was made.
InviteIdle ==
    /\ users = InitialUsers
    /\ userSeq = 2
    /\ invitations = {}
    /\ invSeq = 0
    /\ now = 0
    /\ ticks = 0
    /\ rproc = [p \in RegProcs |-> NoFrame]
    /\ regCalls = 0
    /\ api = NoAnswer
    /\ succeeded = {}
    /\ registered = {}

NoRead == [as |-> NoUser, collection |-> "", status |-> "none", docs |-> {}]

NoSettingsApi == [op |-> "none", as |-> NoUser, id |-> 0, status |-> "none"]

AccessIdle ==
    /\ records = {}
    /\ recSeq = 0
    /\ lastRead = NoRead
    /\ settingsApi = NoSettingsApi

NoSessionOp == [op |-> "none", input |-> <<>>, ret |-> NoRet, user |-> Null]

NoResponse == [pathname |-> <<>>, cookie |-> Null, kind |-> "none", location |-> "",
               redirect |-> "", browser |-> FALSE, loggedOut |-> FALSE]

\* A development server with no FEATURE_* variable set.
DefaultEnv == [NODE_ENV |-> "development", flags |-> {}]

\* The column editor is not mounted.
NoUi == [tableName |-> "", initialColumns |-> <<>>, columns |-> <<>>]

SessionIdle ==
    /\ ui = NoUi
    /\ cookie = Null
    /\ sessionOp = NoSessionOp
    /\ response = NoResponse
    /\ env = DefaultEnv
    /\ loggedOut = FALSE

-----------------------------------------------------------------------------
(* The 'settings' collection (src/collections/Settings.ts) behind Payload's *)
(* Local API. A document is a record: id, user, the six <table>Columns      *)
(* arrays of {column} rows, and itemsPerPage (a string).                    *)

\* field 'column': type text, required: the empty string does not validate
ColumnRowValid(row) == row.column # ""

\* field 'itemsPerPage': type select, one option per ITEMS_PER_PAGE_OPTIONS value
ItemsPerPageValid(value) ==
    \E i \in DOMAIN ITEMS_PER_PAGE_OPTIONS : value = NumberToString(ITEMS_PER_PAGE_OPTIONS[i])

\* Field validation of the data of a create or an update.
SettingsDataValid(data) ==
    /\ \A f \in ColumnFields \cap DOMAIN data : \A i \in DOMAIN data[f] : ColumnRowValid(data[f][i])
    /\ "itemsPerPage" \in DOMAIN data => ItemsPerPageValid(data.itemsPerPage)

\* field 'user': unique: true. No other document may hold the same user.
UserIsFree(coll, data, selfId) ==
    "user" \in DOMAIN data => \A d \in coll : d.id # selfId => d.user # data.user

\* a hook that returns the data as the client sent it
SettingsBeforeChangeKeepsData(reqUser, data) == data

\* hooks.beforeChange: the request's user, when there is one, replaces data.user
SettingsBeforeChange(reqUser, data) ==
    IF reqUser # NoUser THEN [user |-> reqUser] @@ data ELSE data

\* The Local API calls of app/services/settings.ts pass no user: req.user is unset.
LocalApiUser == NoUser

RECURSIVE NewestFirst(_)
\* the default sort of a find: newest document first
NewestFirst(docs) ==
    IF docs = {} THEN <<>>
    ELSE LET d == CHOOSE x \in docs : \A y \in docs : y.id <= x.id
         IN  <<d>> \o NewestFirst(docs \ {d})

\* payload.find({ collection: 'settings', where: { user: { equals: userId } }, limit: 1 })
FindSettingsByUser(coll, userId) ==
    LET all == NewestFirst({d \in coll : d.user = userId})
    IN  IF all = <<>> THEN <<>> ELSE <<all[1]>>

\* Whether payload.create({ collection: 'settings', data }) is accepted.
CreateSettingsAccepted(coll, data) ==
    /\ "user" \in DOMAIN data
    /\ SettingsDataValid(data)
    /\ UserIsFree(coll, data, 0)

\* Whether payload.update({ collection: 'settings', id, data }) is accepted.
UpdateSettingsAccepted(coll, id, data) ==
    /\ \E d \in coll : d.id = id
    /\ SettingsDataValid(data)
    /\ UserIsFree(coll, data, id)

\* Mutant of UpdatedDoc: the stored fields win over data's.
UpdatedDocKeepsStored(coll, id, data) ==
    LET old == CHOOSE d \in coll : d.id = id
    IN  old @@ data

\* The document an accepted update leaves behind: data's fields replace the stored ones.
UpdatedDoc(coll, id, data) ==
    LET old == CHOOSE d \in coll : d.id = id
    IN  [id |-> id] @@ SettingsBeforeChange(LocalApiUser, data) @@ old

\* Mutant of DefaultSettingsData: the products list is seeded from MINIMUM_COLUMNS.
DefaultSettingsDataMinimum(userId) ==
    [user               |-> userId,
     productsColumns    |-> ToRows(MINIMUM_COLUMNS.products),
     clientsColumns     |-> ToRows(DEFAULT_COLUMNS.clients),
     salesColumns       |-> ToRows(DEFAULT_COLUMNS.sales),
     assignmentsColumns |-> ToRows(DEFAULT_COLUMNS.assignments),
     historyColumns     |-> ToRows(DEFAULT_COLUMNS.history),
     sellersColumns     |-> ToRows(DEFAULT_COLUMNS.sellers),
     itemsPerPage       |-> NumberToString(DEFAULT_ITEMS_PER_PAGE)]

\* The data getSettings creates a user's first document with.
DefaultSettingsData(userId) ==
    [user               |-> userId,
     productsColumns    |-> ToRows(DEFAULT_COLUMNS.products),
     clientsColumns     |-> ToRows(DEFAULT_COLUMNS.clients),
     salesColumns       |-> ToRows(DEFAULT_COLUMNS.sales),
     assignmentsColumns |-> ToRows(DEFAULT_COLUMNS.assignments),
     historyColumns     |-> ToRows(DEFAULT_COLUMNS.history),
     sellersColumns     |-> ToRows(DEFAULT_COLUMNS.sellers),
     itemsPerPage       |-> NumberToString(DEFAULT_ITEMS_PER_PAGE)]

-----------------------------------------------------------------------------
(* Pure readers of app/services/settings.ts                                 *)

\* Mutant of getVisibleColumns: the empty stored list is returned as it is.
getVisibleColumnsNoEmptyCheck(s, tableName) ==
    IF s = Null THEN DEFAULT_COLUMNS[tableName]
    ELSE LET fieldName == FieldName(tableName)
         IN  IF fieldName \notin DOMAIN s
             THEN DEFAULT_COLUMNS[tableName]
             ELSE FromRows(s[fieldName])

getVisibleColumns(s, tableName) ==
    IF s = Null THEN DEFAULT_COLUMNS[tableName]
    ELSE LET fieldName == FieldName(tableName)
         IN  IF fieldName \notin DOMAIN s \/ Len(s[fieldName]) = 0
             THEN DEFAULT_COLUMNS[tableName]
             ELSE FromRows(s[fieldName])

getAllColumnsConfig(s) == [t \in TableNames |-> getVisibleColumns(s, t)]

\* contexts/settings-context.tsx: the provider's state holds plain string arrays
ContextGetVisibleColumns(state, tableName) ==
    LET columns == state[FieldName(tableName)]
    IN  IF Len(columns) > 0 THEN columns ELSE DEFAULT_COLUMNS[tableName]

\* Not-a-number and the integers, as parseInt returns them.
NaN == [nan |-> TRUE, n |-> 0]
Number(n) == [nan |-> FALSE, n |-> n]

IsDigit(c) == c \in {"0", "1", "2", "3", "4", "5", "6", "7", "8", "9"}

DigitValue(c) == CHOOSE d \in 0..9 : DigitChar(d) = c

RECURSIVE TrimStart(_)
\* parseInt skips leading white space
TrimStart(str) ==
    IF str # <<>> /\ Head(str) = " " THEN TrimStart(Tail(str)) ELSE str

RECURSIVE LeadingDigits(_)
\* the longest prefix of digits
LeadingDigits(str) ==
    IF str # <<>> /\ IsDigit(Head(str)) THEN <<Head(str)>> \o LeadingDigits(Tail(str))
    ELSE <<>>

RECURSIVE DecimalValue(_)
DecimalValue(digits) ==
    IF digits = <<>> THEN 0
    ELSE 10 * DecimalValue(SubSeq(digits, 1, Len(digits) - 1)) + DigitValue(digits[Len(digits)])

\* parseInt(str, 10): white space, a sign, then the digits up to the first other character
parseInt(str) ==
    LET trimmed == TrimStart(str)
        signed == trimmed # <<>> /\ Head(trimmed) \in {"+", "-"}
        sign == IF signed /\ Head(trimmed) = "-" THEN 0 - 1 ELSE 1
        digits == LeadingDigits(IF signed THEN Tail(trimmed) ELSE trimmed)
    IN  IF digits = <<>> THEN NaN ELSE Number(sign * DecimalValue(digits))

\* [10, 25, 50, 100].includes(value)
IsOption(value) == ~value.nan /\ value.n \in {10, 25, 50, 100}

\* a reader that returns whatever number the stored string parses to
getItemsPerPageAnyNumber(s) ==
    IF s = Null \/ "itemsPerPage" \notin DOMAIN s \/ s.itemsPerPage = <<>>
    THEN DEFAULT_ITEMS_PER_PAGE
    ELSE LET value == parseInt(s.itemsPerPage)
         IN  IF ~value.nan THEN value.n ELSE DEFAULT_ITEMS_PER_PAGE

\* app/services/settings.ts: getItemsPerPage
getItemsPerPage(s) ==
    IF s = Null \/ "itemsPerPage" \notin DOMAIN s \/ s.itemsPerPage = <<>>
    THEN DEFAULT_ITEMS_PER_PAGE
    ELSE LET value == parseInt(s.itemsPerPage)
         IN  IF IsOption(value) THEN value.n ELSE DEFAULT_ITEMS_PER_PAGE

\* contexts/settings-context.tsx: getItemsPerPage
ContextGetItemsPerPage(state) ==
    LET value == parseInt(state.itemsPerPage)
    IN  IF IsOption(value) THEN value.n ELSE 10

-----------------------------------------------------------------------------
(* Requests against the settings store. Each await on the database is one   *)
(* step, so that concurrent requests interleave between their reads and     *)
(* writes. A frame holds the call's arguments and locals:                   *)
(*   op, userId, tableName, columns, data   the call and its arguments      *)
(*   pc                                     the await it is standing at     *)
(*   error                                  the create error it caught      *)
(*   settings                               what its getSettings returned   *)
(*   ret                                    what the call returned or threw *)
(*   did                                    the writes it has made          *)

IdleFrame ==
    [pc |-> "idle", op |-> "none", userId |-> NoUser, tableName |-> "", columns |-> <<>>,
     data |-> <<>>, error |-> "", settings |-> Null, ret |-> NoRet, did |-> {}]

NewFrame(op, userId, tableName, columns, data) ==
    [IdleFrame EXCEPT !.pc = "gs_find", !.op = op, !.userId = userId,
                      !.tableName = tableName, !.columns = columns, !.data = data]

\* Inputs of the requests
InputTables == {"products", "clients"}
ColumnInputs == {<<>>, <<"price", "name">>, <<"">>}
ItemsPerPageInputs == {<<"2", "5">>, <<"7">>}
UpdateDataInputs ==
    {[itemsPerPage |-> <<"2", "5">>], [itemsPerPage |-> <<"7">>], [user |-> 2]}

\* Mutant of updateTableColumnsSchema: columns without .min(1).
updateTableColumnsSchemaNoMin(input) ==
    IF input.tableName \notin TableNames THEN "Invalid enum value" ELSE ""

\* schemas.ts: updateTableColumnsSchema
updateTableColumnsSchema(input) ==
    IF input.tableName \notin TableNames THEN "Invalid enum value"
    ELSE IF Len(input.columns) < 1 THEN "Debe seleccionar al menos una columna"
    ELSE ""

\* schemas.ts: updateItemsPerPageSchema
updateItemsPerPageSchema(input) ==
    IF \E i \in DOMAIN ITEMS_PER_PAGE_OPTIONS :
           input.itemsPerPage = NumberToString(ITEMS_PER_PAGE_OPTIONS[i])
    THEN "" ELSE "Invalid enum value"

\* a check that accepts every column name
validateColumnsForTableAnyName(tableName, columns) == TRUE

\* schemas.ts: validateColumnsForTable
validateColumnsForTable(tableName, columns) ==
    \A i \in DOMAIN columns : columns[i] \in Range(TABLE_COLUMNS[tableName])

\* getSettingsAction's answer for the document getSettings returned
SettingsActionResult(s) ==
    [success |-> TRUE,
     settings |->
        [f \in ColumnFields |-> IF f \in DOMAIN s THEN FromRows(s[f]) ELSE <<>>]
        @@ [id |-> s.id,
            itemsPerPage |-> IF "itemsPerPage" \in DOMAIN s THEN s.itemsPerPage
                             ELSE <<"1", "0">>]]

\* What a call does once its getSettings(userId) has returned document s.
AfterGetSettings(fr, s) ==
    CASE fr.op = "getSettings" ->
            [fr EXCEPT !.pc = "done", !.ret = Returned(s)]
      [] fr.op = "getSettingsAction" ->
            [fr EXCEPT !.pc = "done", !.ret = Returned(SettingsActionResult(s))]
      [] fr.op = "getVisibleColumnsAction" ->
            [fr EXCEPT !.pc = "done",
                       !.ret = Returned([success |-> TRUE, config |-> getAllColumnsConfig(s)])]
      [] fr.op \in {"updateSettings", "updateItemsPerPageAction"} ->
            [fr EXCEPT !.pc = "us_update", !.settings = s]
      [] fr.op \in {"updateTableColumns", "updateTableColumnsAction"} ->
            [fr EXCEPT !.pc = "utc_update", !.settings = s]

\* What a call returns once its payload.update has returned document u.
AfterUpdate(fr, u) ==
    CASE fr.op = "updateItemsPerPageAction" ->
            Returned([success |-> TRUE, itemsPerPage |-> u.itemsPerPage])
      [] fr.op = "updateTableColumnsAction" ->
            Returned([success |-> TRUE, columns |-> u[FieldName(fr.tableName)]])
      [] OTHER -> Returned(u)

\* History: the users for whom a call has returned successfully.
ServedNext ==
    /\ served' = served \cup {sproc'[q].userId :
                                 q \in {r \in DOMAIN sproc : /\ sproc'[r].pc = "done"
                                                             /\ sproc'[r].ret.status = "ok"}}
    /\ UNCHANGED exceptSettings

BeginGetSettings(p, limit) ==
    /\ sproc[p].pc \in {"idle", "done"}
    /\ calls < limit
    /\ \E u \in UserIds :
          sproc' = [sproc EXCEPT ![p] = NewFrame("getSettings", u, "", <<>>, <<>>)]
    /\ calls' = calls + 1
    /\ UNCHANGED <<settings, settingsSeq, faults>>
    /\ ServedNext

\* getSettings(userId), called directly
StartGetSettings(p) == BeginGetSettings(p, MaxCalls)

\* getSettings(userId), one call per concurrent request
RaceGetSettings(p) == BeginGetSettings(p, RaceProcs)

\* updateSettings(userId, data), called directly
StartUpdateSettings(p) ==
    /\ sproc[p].pc \in {"idle", "done"}
    /\ calls < MaxCalls
    /\ \E u \in UserIds, data \in UpdateDataInputs :
          sproc' = [sproc EXCEPT ![p] = NewFrame("updateSettings", u, "", <<>>, data)]
    /\ calls' = calls + 1
    /\ UNCHANGED <<settings, settingsSeq, faults>>
    /\ ServedNext

\* updateTableColumns(userId, tableName, columns), called directly
StartUpdateTableColumns(p) ==
    /\ sproc[p].pc \in {"idle", "done"}
    /\ calls < MaxCalls
    /\ \E u \in UserIds, t \in InputTables, c \in ColumnInputs :
          sproc' = [sproc EXCEPT ![p] = NewFrame("updateTableColumns", u, t, c, <<>>)]
    /\ calls' = calls + 1
    /\ UNCHANGED <<settings, settingsSeq, faults>>
    /\ ServedNext

\* getSettings: the first find
GsFind(p) ==
    /\ sproc[p].pc = "gs_find"
    /\ LET docs == FindSettingsByUser(settings, sproc[p].userId)
       IN  sproc' = [sproc EXCEPT ![p] =
                        IF docs # <<>> THEN AfterGetSettings(@, docs[1])
                        ELSE [@ EXCEPT !.pc = "gs_create"]]
    /\ UNCHANGED <<settings, settingsSeq, calls, faults>>
    /\ ServedNext

\* getSettings: payload.create with the defaults; a rejected create is caught
GsCreate(p) ==
    /\ sproc[p].pc = "gs_create"
    /\ LET data == SettingsBeforeChange(LocalApiUser, DefaultSettingsData(sproc[p].userId))
       IN  IF CreateSettingsAccepted(settings, data)
           THEN LET doc == [id |-> settingsSeq + 1] @@ data
                IN  /\ settings' = settings \cup {doc}
                    /\ settingsSeq' = settingsSeq + 1
                    /\ sproc' = [sproc EXCEPT ![p] =
                                    AfterGetSettings([@ EXCEPT !.did = @ \cup {"create"}], doc)]
           ELSE /\ sproc' = [sproc EXCEPT ![p] = [@ EXCEPT !.pc = "gs_retry", !.error = "unique"]]
                /\ UNCHANGED <<settings, settingsSeq>>
    /\ UNCHANGED <<calls, faults>>
    /\ ServedNext

\* getSettings: payload.create fails for a reason other than the uniqueness of user
GsCreateFault(p) ==
    /\ sproc[p].pc = "gs_create"
    /\ faults < MaxFaults
    /\ faults' = faults + 1
    /\ sproc' = [sproc EXCEPT ![p] = [@ EXCEPT !.pc = "gs_retry", !.error = "fault"]]
    /\ UNCHANGED <<settings, settingsSeq, calls>>
    /\ ServedNext

\* a catch block that throws an error of its own when it finds nothing
GsRetryThrowsOwnError(p) ==
    /\ sproc[p].pc = "gs_retry"
    /\ LET retryDocs == FindSettingsByUser(settings, sproc[p].userId)
       IN  sproc' = [sproc EXCEPT ![p] =
                        IF retryDocs # <<>> THEN AfterGetSettings(@, retryDocs[1])
                        ELSE [@ EXCEPT !.pc = "done", !.ret = Threw("Settings not found")]]
    /\ UNCHANGED <<settings, settingsSeq, calls, faults>>
    /\ ServedNext

\* Mutant of GsRetry: the catch block rethrows without finding again.
GsRetryNoRefind(p) ==
    /\ sproc[p].pc = "gs_retry"
    /\ sproc' = [sproc EXCEPT ![p] = [@ EXCEPT !.pc = "done", !.ret = Threw(sproc[p].error)]]
    /\ UNCHANGED <<settings, settingsSeq, calls, faults>>
    /\ ServedNext

\* getSettings: the catch block finds again, and rethrows when it finds nothing
GsRetry(p) ==
    /\ sproc[p].pc = "gs_retry"
    /\ LET retryDocs == FindSettingsByUser(settings, sproc[p].userId)
       IN  sproc' = [sproc EXCEPT ![p] =
                        IF retryDocs # <<>> THEN AfterGetSettings(@, retryDocs[1])
                        ELSE [@ EXCEPT !.pc = "done", !.ret = Threw(sproc[p].error)]]
    /\ UNCHANGED <<settings, settingsSeq, calls, faults>>
    /\ ServedNext

\* payload.update({ collection: 'settings', id: settings.id, data }) of frame p
PayloadUpdate(p, data) ==
    LET id == sproc[p].settings.id
    IN  IF UpdateSettingsAccepted(settings, id, data)
        THEN LET updated == UpdatedDoc(settings, id, data)
             IN  /\ settings' = {IF d.id = id THEN updated ELSE d : d \in settings}
                 /\ sproc' = [sproc EXCEPT ![p] =
                                 [@ EXCEPT !.pc = "done", !.did = @ \cup {"update"},
                                           !.ret = AfterUpdate(sproc[p], updated)]]
        ELSE /\ sproc' = [sproc EXCEPT ![p] =
                             [@ EXCEPT !.pc = "done", !.ret = Threw("ValidationError")]]
             /\ UNCHANGED settings

\* updateSettings: the update with the caller's data
UsUpdate(p) ==
    /\ sproc[p].pc = "us_update"
    /\ PayloadUpdate(p, sproc[p].data)
    /\ UNCHANGED <<settingsSeq, calls, faults>>
    /\ ServedNext

\* updateTableColumns: the update of the one <table>Columns field
UtcUpdate(p) ==
    /\ sproc[p].pc = "utc_update"
    /\ LET fieldName == FieldName(sproc[p].tableName)
           arrayData == ToRows(sproc[p].columns)
       IN  PayloadUpdate(p, [f \in {fieldName} |-> arrayData])
    /\ UNCHANGED <<settingsSeq, calls, faults>>
    /\ ServedNext


\* a server action that calls the service without looking at getCurrentUser's result
ActionFrameNoAuthCheck(op, currentUser, tableName, columns, data, schemaError, inputError) ==
    LET fr == NewFrame(op, currentUser, tableName, columns, data)
    IN  IF schemaError # "" THEN [fr EXCEPT !.pc = "done", !.ret = Threw(schemaError)]
        ELSE IF inputError # "" THEN [fr EXCEPT !.pc = "done", !.ret = Threw(inputError)]
        ELSE fr

\* A server action up to its call of the service: the schema, then getCurrentUser.
ActionFrame(op, currentUser, tableName, columns, data, schemaError, inputError) ==
    LET fr == NewFrame(op, currentUser, tableName, columns, data)
    IN  IF schemaError # "" THEN [fr EXCEPT !.pc = "done", !.ret = Threw(schemaError)]
        ELSE IF currentUser = NoUser
             THEN [fr EXCEPT !.pc = "done", !.ret = Threw("No autenticado")]
        ELSE IF inputError # "" THEN [fr EXCEPT !.pc = "done", !.ret = Threw(inputError)]
        ELSE fr

\* actions.ts: getSettingsAction
StartGetSettingsAction(p) ==
    /\ sproc[p].pc \in {"idle", "done"}
    /\ calls < MaxCalls
    /\ \E cu \in UserIds \cup {NoUser} :
          sproc' = [sproc EXCEPT ![p] =
                       ActionFrame("getSettingsAction", cu, "", <<>>, <<>>, "", "")]
    /\ calls' = calls + 1
    /\ UNCHANGED <<settings, settingsSeq, faults>>
    /\ ServedNext

\* actions.ts: updateTableColumnsAction
StartUpdateTableColumnsAction(p) ==
    /\ sproc[p].pc \in {"idle", "done"}
    /\ calls < MaxCalls
    /\ \E cu \in UserIds \cup {NoUser}, t \in InputTables \cup {"orders"}, c \in ColumnInputs :
          sproc' = [sproc EXCEPT ![p] =
                       ActionFrame("updateTableColumnsAction", cu, t, c, <<>>,
                                   updateTableColumnsSchema([tableName |-> t, columns |-> c]),
                                   IF t \in TableNames /\ ~validateColumnsForTable(t, c)
                                   THEN "Columnas invalidas para esta tabla" ELSE "")]
    /\ calls' = calls + 1
    /\ UNCHANGED <<settings, settingsSeq, faults>>
    /\ ServedNext

\* actions.ts: updateItemsPerPageAction
StartUpdateItemsPerPageAction(p) ==
    /\ sproc[p].pc \in {"idle", "done"}
    /\ calls < MaxCalls
    /\ \E cu \in UserIds \cup {NoUser}, ipp \in ItemsPerPageInputs :
          sproc' = [sproc EXCEPT ![p] =
                       ActionFrame("updateItemsPerPageAction", cu, "", <<>>,
                                   [itemsPerPage |-> ipp],
                                   updateItemsPerPageSchema([itemsPerPage |-> ipp]), "")]
    /\ calls' = calls + 1
    /\ UNCHANGED <<settings, settingsSeq, faults>>
    /\ ServedNext

\* actions.ts: getVisibleColumnsAction
StartGetVisibleColumnsAction(p) ==
    /\ sproc[p].pc \in {"idle", "done"}
    /\ calls < MaxCalls
    /\ \E cu \in UserIds \cup {NoUser} :
          sproc' = [sproc EXCEPT ![p] =
                       ActionFrame("getVisibleColumnsAction", cu, "", <<>>, <<>>, "", "")]
    /\ calls' = calls + 1
    /\ UNCHANGED <<settings, settingsSeq, faults>>
    /\ ServedNext

ServiceStep(p) ==
    \/ StartGetSettings(p)
    \/ StartUpdateSettings(p)
    \/ StartUpdateTableColumns(p)
    \/ GsFind(p)
    \/ GsCreate(p)
    \/ GsCreateFault(p)
    \/ GsRetry(p)
    \/ UsUpdate(p)
    \/ UtcUpdate(p)

ActionStep(p) ==
    \/ StartGetSettingsAction(p)
    \/ StartUpdateTableColumnsAction(p)
    \/ StartUpdateItemsPerPageAction(p)
    \/ StartGetVisibleColumnsAction(p)
    \/ GsFind(p)
    \/ GsCreate(p)
    \/ GsRetry(p)
    \/ UsUpdate(p)
    \/ UtcUpdate(p)

SettingsInit ==
    /\ settings = {}
    /\ settingsSeq = 0
    /\ sproc = [p \in SettingsProcs |-> IdleFrame]
    /\ calls = 0
    /\ faults = 0
    /\ served = {}
    /\ PureIdle
    /\ InviteIdle
    /\ AccessIdle
    /\ SessionIdle

NextService == \E p \in SettingsProcs : ServiceStep(p)

\* Any interleaving of calls of the service functions of app/services/settings.ts.
SpecService == SettingsInit /\ [][NextService]_vars

NextActions == \E p \in SettingsProcs : ActionStep(p)

\* Any interleaving of the server actions of components/settings/actions.ts.
SpecActions == SettingsInit /\ [][NextActions]_vars

RaceInit ==
    /\ settings = {}
    /\ settingsSeq = 0
    /\ sproc = [p \in 1..RaceProcs |-> IdleFrame]
    /\ calls = 0
    /\ faults = 0
    /\ served = {}
    /\ PureIdle
    /\ InviteIdle
    /\ AccessIdle
    /\ SessionIdle

RaceStep(p) ==
    \/ RaceGetSettings(p)
    \/ GsFind(p)
    \/ GsCreate(p)
    \/ GsRetry(p)

NextRace == \E p \in 1..RaceProcs : RaceStep(p)

\* Concurrent getSettings calls only, on a database that fails only on uniqueness.
SpecRace == RaceInit /\ [][NextRace]_vars

-----------------------------------------------------------------------------
(* The pure readers, applied to every settings value of a bounded family:   *)
(* null, and documents whose products and clients lists are absent, empty   *)
(* or filled and whose other lists are absent or the defaults.              *)

StoredListInputs == {<<>>, ToRows(<<"name", "price">>), ToRows(<<"phone">>)}

OptionalField(name, values) == {<<>>} \cup {[f \in {name} |-> v] : v \in values}

SettingsInputs ==
    {Null} \cup
    {[id |-> 1, user |-> 1, itemsPerPage |-> <<"1", "0">>] @@ a @@ b @@ c :
        a \in OptionalField("productsColumns", StoredListInputs),
        b \in OptionalField("clientsColumns", StoredListInputs),
        c \in {<<>>, [f \in ColumnFields \ {"productsColumns", "clientsColumns"} |->
                         ToRows(DEFAULT_COLUMNS[CHOOSE t \in TableNames : FieldName(t) = f])]}}

\* The provider's initial state (useState), before any settings were fetched.
ContextInitialState ==
    [f \in ColumnFields |-> DEFAULT_COLUMNS[CHOOSE t \in TableNames : FieldName(t) = f]]
    @@ [itemsPerPage |-> <<"1", "0">>]

\* The provider's state for a fetched document: setState of getSettingsAction's answer.
ContextState(s) ==
    IF s = Null THEN ContextInitialState ELSE SettingsActionResult(s).settings

ApplyGetVisibleColumns ==
    /\ \E s \in SettingsInputs, t \in TableNames :
          /\ pureIn' = [fn |-> "getVisibleColumns", settings |-> s, tableName |-> t]
          /\ pureOut' = getVisibleColumns(s, t)
    /\ UNCHANGED <<provider, exceptPure>>

ApplyContextGetVisibleColumns ==
    /\ \E s \in SettingsInputs, t \in TableNames :
          /\ pureIn' = [fn |-> "context.getVisibleColumns", settings |-> s, tableName |-> t]
          /\ pureOut' = ContextGetVisibleColumns(ContextState(s), t)
    /\ UNCHANGED <<provider, exceptPure>>

\* The strings a settings document may hold as itemsPerPage.
ItemsPerPageStrings ==
    {<<"1", "0">>, <<"2", "5">>, <<"5", "0">>, <<"1", "0", "0">>, <<>>, <<"7">>, <<"2", "0">>,
     <<"a", "b", "c">>, <<"2", "5", "a", "b">>, <<" ", "5", "0">>, <<"+", "1", "0", "0">>,
     <<"-", "1", "0">>, <<"0", "1", "0">>, <<"1", "0", ".", "5">>, <<"1", "e", "2">>,
     <<"1", "0", "0", "0">>}

\* No document, a document without the field, a document with each of the strings.
ItemsPerPageDocs ==
    {Null, [id |-> 1, user |-> 1]}
    \cup {[id |-> 1, user |-> 1, itemsPerPage |-> str] : str \in ItemsPerPageStrings}

ApplyGetItemsPerPage ==
    /\ \E s \in ItemsPerPageDocs :
          /\ pureIn' = [fn |-> "getItemsPerPage", settings |-> s]
          /\ pureOut' = getItemsPerPage(s)
    /\ UNCHANGED <<provider, exceptPure>>

ApplyContextGetItemsPerPage ==
    /\ \E s \in ItemsPerPageDocs :
          /\ pureIn' = [fn |-> "context.getItemsPerPage", settings |-> s]
          /\ pureOut' = ContextGetItemsPerPage(ContextState(s))
    /\ UNCHANGED <<provider, exceptPure>>

PureInit ==
    /\ settings = {}
    /\ settingsSeq = 0
    /\ sproc = [p \in SettingsProcs |-> IdleFrame]
    /\ calls = 0
    /\ faults = 0
    /\ served = {}
    /\ PureIdle
    /\ InviteIdle
    /\ AccessIdle
    /\ SessionIdle

NextPure ==
    \/ ApplyGetVisibleColumns
    \/ ApplyContextGetVisibleColumns
    \/ ApplyGetItemsPerPage
    \/ ApplyContextGetItemsPerPage

\* The pure readers applied to every input of the bounded family.
SpecPure == PureInit /\ [][NextPure]_vars

-----------------------------------------------------------------------------
(* The SettingsProvider of one browser tab (src/contexts/settings-context.tsx). *)
(* A call of a server action occupies a slot of sproc from the moment the   *)
(* provider issues it until its promise settles in the provider: the server *)
(* runs the call step by step in between, so that the calls of one provider *)
(* overlap on the server and their promises settle in any order.            *)

MaxProviderCalls == 3   \* server action calls the provider issues
MaxEffects == 2         \* runs of the mount effect (React runs it twice in Strict Mode)
MaxRejects == 1         \* calls whose promise rejects without reaching the server

NoId == 0

\* The columns and page sizes the provider's callers pass.
ProviderColumnInputs == {<<>>, <<"price", "name">>}
ProviderItemsPerPageInputs == {25, 7}

\* useState's initial value
ProviderInitialState ==
    ContextInitialState @@ [id |-> NoId, isLoading |-> TRUE, error |-> ""]

\* The settings documents the database may hold when the tab opens.
StoredAtStart ==
    {{}, {[id |-> 1] @@ [DefaultSettingsData(1) EXCEPT !.productsColumns = ToRows(<<"name">>)]}}

ProviderInit ==
    /\ settings \in StoredAtStart
    /\ settingsSeq = Cardinality(settings)
    /\ sproc = [p \in SettingsProcs |-> IdleFrame]
    /\ calls = 0
    /\ faults = 0
    /\ served = {}
    /\ pureIn = [fn |-> "none"]
    /\ pureOut = <<>>
    /\ \E u \in {1, NoUser} :
          provider = [rendered |-> TRUE, user |-> u, state |-> ProviderInitialState,
                      hasFetchedRef |-> FALSE, effects |-> 0,
                      pending |-> [p \in SettingsProcs |-> "none"], fetches |-> 0,
                      rejects |-> 0]
    /\ InviteIdle
    /\ AccessIdle
    /\ SessionIdle

\* What the provider's steps leave alone.
exceptProvider ==
    <<settings, settingsSeq, faults, served, pureIn, pureOut, ivars, avars, xvars>>

\* A promise that rejects: the call never reached the server.
Rejected(fr) == [fr EXCEPT !.pc = "done", !.ret = Threw("fetch failed")]

\* The provider calls a server action in slot p: the call runs on the server, or rejects.
ProviderCalls(p, kind, fr, next) ==
    /\ sproc[p].pc = "idle"
    /\ \/ /\ sproc' = [sproc EXCEPT ![p] = fr]
          /\ provider' = [next EXCEPT !.pending[p] = kind]
       \/ /\ provider.rejects < MaxRejects
          /\ sproc' = [sproc EXCEPT ![p] = Rejected(fr)]
          /\ provider' = [next EXCEPT !.pending[p] = kind, !.rejects = @ + 1]
    /\ calls' = calls + 1
    /\ UNCHANGED exceptProvider

GetSettingsActionFrame ==
    ActionFrame("getSettingsAction", provider.user, "", <<>>, <<>>, "", "")

\* a mount effect that fetches on every run
MountEffectEveryRun(p) ==
    /\ provider.rendered
    /\ provider.effects < MaxEffects
    /\ ProviderCalls(p, "load", GetSettingsActionFrame,
                     [provider EXCEPT !.effects = @ + 1, !.hasFetchedRef = TRUE,
                                      !.fetches = @ + 1])

\* useEffect(() => { if (hasFetchedRef.current) return; ... getSettingsAction() ... }, [])
MountEffect(p) ==
    /\ provider.rendered
    /\ provider.effects < MaxEffects
    /\ IF provider.hasFetchedRef
       THEN /\ provider' = [provider EXCEPT !.effects = @ + 1]
            /\ UNCHANGED <<sproc, calls, exceptProvider>>
       ELSE ProviderCalls(p, "load", GetSettingsActionFrame,
                          [provider EXCEPT !.effects = @ + 1, !.hasFetchedRef = TRUE,
                                           !.fetches = @ + 1])

\* reloadSettings: setState({ isLoading: true, error: null }), then getSettingsAction()
ReloadSettings(p) ==
    /\ provider.rendered
    /\ provider.effects > 0
    /\ calls < MaxProviderCalls
    /\ ProviderCalls(p, "reload", GetSettingsActionFrame,
                     [provider EXCEPT !.state.isLoading = TRUE, !.state.error = ""])

\* updateTableColumns(tableName, columns): updateTableColumnsAction({ tableName, columns })
UpdateTableColumns(p) ==
    /\ provider.rendered
    /\ provider.effects > 0
    /\ calls < MaxProviderCalls
    /\ \E t \in InputTables, c \in ProviderColumnInputs :
          ProviderCalls(p, "updateTableColumns",
                        ActionFrame("updateTableColumnsAction", provider.user, t, c, <<>>,
                                    updateTableColumnsSchema([tableName |-> t, columns |-> c]),
                                    IF ~validateColumnsForTable(t, c)
                                    THEN "Columnas invalidas para esta tabla" ELSE ""),
                        provider)

\* updateItemsPerPage(itemsPerPage): updateItemsPerPageAction({ itemsPerPage: toString() })
UpdateItemsPerPage(p) ==
    /\ provider.rendered
    /\ provider.effects > 0
    /\ calls < MaxProviderCalls
    /\ \E n \in ProviderItemsPerPageInputs :
          LET ipp == NumberToString(n)
          IN  ProviderCalls(p, "updateItemsPerPage",
                            ActionFrame("updateItemsPerPageAction", provider.user, "", <<>>,
                                        [itemsPerPage |-> ipp],
                                        updateItemsPerPageSchema([itemsPerPage |-> ipp]), ""),
                            provider)

\* setState of a getSettingsAction that answered with settings
Fetched(state, answer) ==
    [f \in DOMAIN state |->
        IF f \in DOMAIN answer THEN answer[f]
        ELSE IF f = "isLoading" THEN FALSE
        ELSE state[f]]

\* setState of a getSettingsAction that answered without settings, or rejected
FetchFailed(state, message) == [state EXCEPT !.isLoading = FALSE, !.error = message]

\* The provider's state once the promise of the call in slot p has settled.
Settled(state, kind, fr) ==
    LET ok == fr.ret.status = "ok"
    IN  CASE kind = "load" ->
                IF ok THEN Fetched(state, fr.ret.value.settings)
                ELSE FetchFailed(state, "Error al cargar configuraciones")
          [] kind = "reload" ->
                IF ok THEN Fetched(state, fr.ret.value.settings)
                ELSE FetchFailed(state, "Error al recargar configuraciones")
          [] kind = "updateTableColumns" ->
                IF ok THEN [state EXCEPT ![FieldName(fr.tableName)] = fr.columns]
                ELSE state
          [] kind = "updateItemsPerPage" ->
                IF ok THEN [state EXCEPT !.itemsPerPage = fr.data.itemsPerPage]
                ELSE state

\* The promise of the call in slot p settles: its then / catch runs.
Settle(p) ==
    /\ provider.rendered
    /\ provider.pending[p] # "none"
    /\ sproc[p].pc = "done"
    /\ provider' = [provider EXCEPT !.pending[p] = "none",
                                    !.state = Settled(@, provider.pending[p], sproc[p])]
    /\ sproc' = [sproc EXCEPT ![p] = IdleFrame]
    /\ UNCHANGED <<calls, exceptProvider>>

\* One step of the server on the call in slot p.
ServerStep(p) ==
    \/ GsFind(p)
    \/ GsCreate(p)
    \/ GsRetry(p)
    \/ UsUpdate(p)
    \/ UtcUpdate(p)

ProviderStep(p) ==
    \/ MountEffect(p)
    \/ ReloadSettings(p)
    \/ UpdateTableColumns(p)
    \/ UpdateItemsPerPage(p)
    \/ GsFind(p)
    \/ GsCreate(p)
    \/ GsCreateFault(p)
    \/ GsRetry(p)
    \/ UsUpdate(p)
    \/ UtcUpdate(p)
    \/ Settle(p)

NextProvider == \E p \in SettingsProcs : ProviderStep(p)

\* One tab's provider and the server actions it calls, in any interleaving.
SpecProvider == ProviderInit /\ [][NextProvider]_vars

\* The same, where React runs the mount effect, the server runs every call it has
\* received to its end, and every promise settles.
SpecProviderLive ==
    /\ SpecProvider
    /\ WF_vars(\E p \in SettingsProcs : MountEffect(p))
    /\ \A p \in SettingsProcs : WF_vars(ServerStep(p)) /\ WF_vars(Settle(p))

-----------------------------------------------------------------------------
(* Invitations through Payload's REST API, where access control and hooks   *)
(* run with the request's user.                                             *)

\* Invitations.access.create
InvitationsAccessCreate(user) ==
    IF user = Null THEN FALSE ELSE user.role = "admin" \/ user.role = "owner"

\* Invitations.access.update: () => false
InvitationsAccessUpdate(user) == FALSE

\* a hook that generates the token and the expiry only when the client sent none
InvitationsBeforeValidateKeepsClient(data, operation, random, t) ==
    IF operation = "create"
    THEN data @@ [token |-> random, expiresAt |-> t + SevenDays]
    ELSE data

\* Invitations.hooks.beforeValidate: on create, the token and the expiry are generated
InvitationsBeforeValidate(data, operation, random, t) ==
    IF operation = "create"
    THEN [token |-> random, expiresAt |-> t + SevenDays] @@ data
    ELSE data

\* a hook that lets every role through
InvitationsBeforeChangeAnyRole(data, user, operation) == ""

\* Invitations.hooks.beforeChange: the message it throws, or "" when it returns data
InvitationsBeforeChange(data, user, operation) ==
    IF operation = "create" /\ user # Null
    THEN IF user.role = "owner" /\ data.role # "seller" THEN "Solo podes invitar vendedores"
         ELSE IF user.role = "admin" /\ data.role = "seller" THEN "Admins solo invitan owners"
         ELSE ""
    ELSE ""

\* z.string().email() and Payload's email field: the well-formed addresses
IsEmail(e) == e \in Emails \cup {u.email : u \in InitialUsers}

\* Invitations.fields: email (required), role (one of the two options)
InvitationDataValid(data) ==
    /\ IsEmail(data.email)
    /\ data.role \in {"owner", "seller"}

\* Invitations.fields.token: unique
TokenIsFree(coll, token) == \A i \in coll : i.token # token

\* What a client may send along with email and role.
ClientSupplied == {<<>>, [token |-> "chosen-by-client", expiresAt |-> 3 * SevenDays]}

\* req.user.role, or "" for a request without a user
RoleOf(user) == IF user = Null THEN "" ELSE user.role

\* POST /api/invitations as `actor` (a user document, or Null without a session)
CreateInvitation ==
    /\ Cardinality(invitations) < MaxInvitations
    /\ \E actor \in users \cup {Null}, email \in Emails, role \in {"owner", "seller", "admin"},
          supplied \in ClientSupplied, random \in RandomTokens :
          LET data == InvitationsBeforeValidate(supplied @@ [email |-> email, role |-> role],
                                                "create", random, now)
              thrown == InvitationsBeforeChange(data, actor, "create")
          IN  IF ~InvitationsAccessCreate(actor)
              THEN /\ api' = [status |-> "forbidden", error |-> "",
                               by |-> RoleOf(actor), role |-> role]
                   /\ UNCHANGED <<invitations, invSeq>>
              ELSE IF ~InvitationDataValid(data)
              THEN /\ api' = [status |-> "error", error |-> "ValidationError",
                               by |-> RoleOf(actor), role |-> role]
                   /\ UNCHANGED <<invitations, invSeq>>
              ELSE IF thrown # ""
              THEN /\ api' = [status |-> "error", error |-> thrown,
                               by |-> RoleOf(actor), role |-> role]
                   /\ UNCHANGED <<invitations, invSeq>>
              ELSE IF ~TokenIsFree(invitations, data.token)
              THEN /\ api' = [status |-> "error", error |-> "ValidationError",
                               by |-> RoleOf(actor), role |-> role]
                   /\ UNCHANGED <<invitations, invSeq>>
              ELSE /\ invitations' = invitations \cup
                          {[id |-> invSeq + 1, createdBy |-> actor.id, createdAt |-> now] @@ data}
                   /\ invSeq' = invSeq + 1
                   /\ api' = [status |-> "created", error |-> "",
                               by |-> RoleOf(actor), role |-> role]
    /\ UNCHANGED <<users, userSeq, now, ticks, rproc, regCalls, succeeded, registered>>
    /\ UNCHANGED exceptInvite

\* What a client may send to change an invitation.
ClientPatches == {[token |-> "chosen-by-client"], [expiresAt |-> 3 * SevenDays]}

\* PATCH /api/invitations/:id as `actor`
ApiUpdateInvitation ==
    /\ \E actor \in users \cup {Null}, inv \in invitations, patch \in ClientPatches :
          IF InvitationsAccessUpdate(actor)
          THEN /\ invitations' = (invitations \ {inv}) \cup
                      {InvitationsBeforeValidate(patch, "update", "", now) @@ inv}
               /\ api' = [status |-> "updated", error |-> "", by |-> "", role |-> ""]
          ELSE /\ api' = [status |-> "forbidden", error |-> "", by |-> "", role |-> ""]
               /\ UNCHANGED invitations
    /\ UNCHANGED <<users, userSeq, invSeq, now, ticks, rproc, regCalls, succeeded, registered>>
    /\ UNCHANGED exceptInvite

\* The last instant the clock reaches (timestamps stay within 32 bits).
LastInstant == 2 * SevenDays

\* Time passes.
Tick ==
    /\ ticks < MaxTicks
    /\ \E step \in TickSteps :
          /\ now + step <= LastInstant
          /\ now' = now + step
    /\ ticks' = ticks + 1
    /\ UNCHANGED <<users, userSeq, invitations, invSeq, rproc, regCalls, api, succeeded,
                   registered>>
    /\ UNCHANGED exceptInvite

-----------------------------------------------------------------------------
(* registerUser (components/auth/actions.ts) and the services it awaits     *)

\* registerSchema: the first message of a failed parse, or ""
registerSchema(input) ==
    IF Len(input.name) < 2 THEN "El nombre debe tener al menos 2 caracteres"
    ELSE IF ~IsEmail(input.email) THEN "Email invalido"
    ELSE IF Len(input.password) < 6 THEN "La contrasena debe tener al menos 6 caracteres"
    ELSE IF input.token = "" THEN "Token requerido"
    ELSE ""

GoodName == <<"A", "n", "a">>
GoodPassword == <<"s", "e", "c", "r", "e", "t">>

RegisterInputs ==
    {[name |-> GoodName, email |-> e, password |-> GoodPassword, token |-> t] :
        e \in Emails, t \in RandomTokens}
    \cup {[name |-> GoodName, email |-> "ana@mail.com", password |-> <<"1", "2", "3">>, token |-> "a1f3"],
          [name |-> GoodName, email |-> "ana@mail.com", password |-> GoodPassword, token |-> ""]}

RegError(message) == [status |-> "error", error |-> message, value |-> <<>>]

RegSuccess == [status |-> "ok", error |-> "", value |-> [success |-> TRUE]]

\* where: { usedAt: { exists: true } }, the filter validateInvitation does not apply
AnyUse(i) == TRUE

\* where: { usedAt: { exists: false } }
Unused(i) == "usedAt" \notin DOMAIN i

\* where: { expiresAt: { greater_than_equal: now } }
NotYetPastExpiry(i, t) == i.expiresAt >= t

\* where: { expiresAt: { greater_than: now } }
NotExpired(i, t) == i.expiresAt > t

\* services/invitations.ts: validateInvitation, at time t
validateInvitation(coll, token, t) ==
    LET found == NewestFirst({i \in coll : /\ i.token = token
                                           /\ Unused(i)
                                           /\ NotExpired(i, t)})
    IN  IF found = <<>>
        THEN [valid |-> FALSE, invitation |-> Null, error |-> "Invitacion invalida o expirada"]
        ELSE [valid |-> TRUE,
              invitation |-> [id |-> found[1].id, email |-> found[1].email,
                              role |-> found[1].role, createdBy |-> found[1].createdBy],
              error |-> ""]

\* registerUser is called: the schema parses the input
StartRegister(p) ==
    /\ rproc[p].pc \in {"idle", "done"}
    /\ regCalls < MaxRegs
    /\ \E input \in RegisterInputs :
          LET fr == [NoFrame EXCEPT !.input = input, !.late = input.token \in succeeded]
          IN  rproc' = [rproc EXCEPT ![p] =
                           IF registerSchema(input) # ""
                           THEN [fr EXCEPT !.pc = "done", !.ret = RegError(registerSchema(input))]
                           ELSE [fr EXCEPT !.pc = "validate"]]
    /\ regCalls' = regCalls + 1
    /\ UNCHANGED <<users, userSeq, invitations, invSeq, now, ticks, api, succeeded, registered>>
    /\ UNCHANGED exceptInvite

\* a registerUser that compares nothing
InvitationEmailNeverDiffers(invitation, input) == FALSE

\* registerUser: invitation.email !== email
InvitationEmailDiffers(invitation, input) == invitation.email # input.email

\* registerUser: await validateInvitation(token), then the comparison of the emails
RegValidate(p) ==
    /\ rproc[p].pc = "validate"
    /\ LET input == rproc[p].input
           invitationResult == validateInvitation(invitations, input.token, now)
           fr == [rproc[p] EXCEPT
                     !.invitation = invitationResult.invitation,
                     !.seen = [at |-> now,
                               matching |-> {i \in invitations : i.token = input.token}]]
       IN  rproc' = [rproc EXCEPT ![p] =
                        IF ~invitationResult.valid \/ invitationResult.invitation = Null
                        THEN [fr EXCEPT !.pc = "done", !.ret = RegError(invitationResult.error)]
                        ELSE IF InvitationEmailDiffers(invitationResult.invitation, input)
                        THEN [fr EXCEPT !.pc = "done",
                                        !.ret = RegError("El email no coincide con la invitacion")]
                        ELSE [fr EXCEPT !.pc = "cu_find"]]
    /\ UNCHANGED <<users, userSeq, invitations, invSeq, now, ticks, regCalls, api, succeeded,
                   registered>>
    /\ UNCHANGED exceptInvite

\* createUser: the find by email
RegFindUser(p) ==
    /\ rproc[p].pc = "cu_find"
    /\ LET existingUsers == {u \in users : u.email = rproc[p].input.email}
       IN  rproc' = [rproc EXCEPT ![p] =
                        IF existingUsers # {}
                        THEN [@ EXCEPT !.pc = "done", !.ret = RegError("El email ya esta registrado")]
                        ELSE [@ EXCEPT !.pc = "cu_create"]]
    /\ UNCHANGED <<users, userSeq, invitations, invSeq, now, ticks, regCalls, api, succeeded,
                   registered>>
    /\ UNCHANGED exceptInvite

\* a registerUser that hands createUser the role and never an owner
NewUserDataNoOwner(input, invitation) ==
    [name |-> input.name, email |-> input.email, role |-> invitation.role]

\* The data registerUser hands to createUser, as createUser hands it to payload.create
NewUserData(input, invitation) ==
    LET owner == IF invitation.role = "seller" /\ invitation.createdBy # NoUser
                 THEN [owner |-> invitation.createdBy] ELSE <<>>
    IN  [name |-> input.name, email |-> input.email, role |-> invitation.role] @@ owner

\* a users collection that accepts an email twice
EmailAlwaysFree(coll, email) == TRUE

\* the users collection is an auth collection: email is unique
EmailIsFree(coll, email) == \A u \in coll : u.email # email

\* createUser: payload.create, whose error is caught and reported
RegCreateUser(p) ==
    /\ rproc[p].pc = "cu_create"
    /\ LET data == NewUserData(rproc[p].input, rproc[p].invitation)
       IN  IF EmailIsFree(users, data.email)
           THEN /\ users' = users \cup {[id |-> userSeq + 1] @@ data}
                /\ userSeq' = userSeq + 1
                /\ registered' = registered \cup {<<userSeq + 1, rproc[p].invitation.id>>}
                /\ rproc' = [rproc EXCEPT ![p] =
                                [@ EXCEPT !.pc = "mark", !.did = @ \cup {"createUser"}]]
           ELSE /\ rproc' = [rproc EXCEPT ![p] =
                                [@ EXCEPT !.pc = "done", !.ret = RegError("Error al crear el usuario")]]
                /\ UNCHANGED <<users, userSeq, registered>>
    /\ UNCHANGED <<invitations, invSeq, now, ticks, regCalls, api, succeeded>>
    /\ UNCHANGED exceptInvite

\* a markInvitationAsUsed that writes nothing
markInvitationAsUsedNowhere(coll, id, t) == coll

\* services/invitations.ts: markInvitationAsUsed, at time t
markInvitationAsUsed(coll, id, t) ==
    {IF i.id = id THEN [usedAt |-> t] @@ i ELSE i : i \in coll}

\* registerUser: await markInvitationAsUsed(invitation.id), then success
RegMarkUsed(p) ==
    /\ rproc[p].pc = "mark"
    /\ invitations' = markInvitationAsUsed(invitations, rproc[p].invitation.id, now)
    /\ rproc' = [rproc EXCEPT ![p] =
                    [@ EXCEPT !.pc = "done", !.did = @ \cup {"markUsed"}, !.ret = RegSuccess]]
    /\ succeeded' = succeeded \cup {rproc[p].input.token}
    /\ UNCHANGED <<users, userSeq, invSeq, now, ticks, regCalls, api, registered>>
    /\ UNCHANGED exceptInvite

InviteInit ==
    /\ settings = {}
    /\ settingsSeq = 0
    /\ sproc = [p \in SettingsProcs |-> IdleFrame]
    /\ calls = 0
    /\ faults = 0
    /\ served = {}
    /\ PureIdle
    /\ InviteIdle
    /\ AccessIdle
    /\ SessionIdle

RegisterStep(p) ==
    \/ StartRegister(p)
    \/ RegValidate(p)
    \/ RegFindUser(p)
    \/ RegCreateUser(p)
    \/ RegMarkUsed(p)

\* The invitee: one browser submitting the registration form.
Invitee == 1

NextInvite ==
    \/ CreateInvitation
    \/ ApiUpdateInvitation
    \/ Tick
    \/ RegisterStep(Invitee)

\* Invitations are created through the API while time passes and an invitee registers.
SpecInvite == InviteInit /\ [][NextInvite]_vars

\* The invitation the admin created for an owner, or the owner for a seller, at time 0.
CreatedAtStart(n, by, role) ==
    {[id |-> n, createdBy |-> by, createdAt |-> 0, email |-> e, role |-> role,
      token |-> t, expiresAt |-> SevenDays] : e \in Emails, t \in RandomTokens}

\* The outstanding invitations registrations start from: none, one, or the admin's
\* and then the owner's, with distinct tokens.
InvitationSets ==
    {{}} \cup {{a} : a \in CreatedAtStart(1, 1, "owner") \cup CreatedAtStart(1, 2, "seller")}
         \cup {{q[1], q[2]} :
                q \in {r \in CreatedAtStart(1, 1, "owner") \X CreatedAtStart(2, 2, "seller") :
                          r[1].token # r[2].token}}

RegisterInit ==
    /\ settings = {}
    /\ settingsSeq = 0
    /\ sproc = [p \in SettingsProcs |-> IdleFrame]
    /\ calls = 0
    /\ faults = 0
    /\ served = {}
    /\ PureIdle
    /\ users = InitialUsers
    /\ userSeq = 2
    /\ invitations \in InvitationSets
    /\ invSeq = Cardinality(invitations)
    /\ now = 0
    /\ ticks = 0
    /\ rproc = [p \in RegProcs |-> NoFrame]
    /\ regCalls = 0
    /\ api = NoAnswer
    /\ succeeded = {}
    /\ registered = {}
    /\ AccessIdle
    /\ SessionIdle

NextRegister ==
    \/ Tick
    \/ \E p \in RegProcs : RegisterStep(p)

\* Registrations race for the outstanding invitations while time passes.
SpecRegister == RegisterInit /\ [][NextRegister]_vars

-----------------------------------------------------------------------------
(* Properties of the settings store                                         *)

DocsOf(u) == {d \in settings : d.user = u}

Done(p) == sproc[p].pc = "done"

DoneOk(p) == Done(p) /\ sproc[p].ret.status = "ok"

\* C1: when getSettings calls for users without a record run concurrently, in
\* any interleaving, every call that has returned has returned a record and no
\* error, all calls for one user have returned the same record (same id), that
\* user then has exactly one record, and a call whose create was refused by the
\* uniqueness of user has returned the record its second find found.
C1_ConcurrentFirstAccess ==
    /\ \A p \in DOMAIN sproc : Done(p) =>
          /\ sproc[p].ret.status = "ok"
          /\ sproc[p].ret.value \in DocsOf(sproc[p].userId)
          /\ Cardinality(DocsOf(sproc[p].userId)) = 1
    /\ \A p, q \in DOMAIN sproc :
          (Done(p) /\ Done(q) /\ sproc[p].userId = sproc[q].userId)
              => sproc[p].ret.value.id = sproc[q].ret.value.id
    /\ \A u \in UserIds : Cardinality(DocsOf(u)) <= 1

\* C1 witness: two calls for one user both found nothing; one created the
\* record, the other's create was refused, and both have returned that record.
C1_Witness ==
    \E p, q \in DOMAIN sproc :
        /\ p # q /\ DoneOk(p) /\ DoneOk(q)
        /\ sproc[p].userId = sproc[q].userId
        /\ "create" \in sproc[p].did
        /\ sproc[q].error = "unique"
        /\ sproc[p].ret.value = sproc[q].ret.value

C3_FirstAccessDefaults ==
    \A p \in DOMAIN sproc :
        (sproc[p].op = "getSettings" /\ Done(p) /\ "create" \in sproc[p].did) =>
            /\ sproc[p].ret.status = "ok"
            /\ sproc[p].ret.value.user = sproc[p].userId
            /\ \A t \in TableNames :
                  FromRows(sproc[p].ret.value[FieldName(t)]) = DEFAULT_COLUMNS[t]
            /\ sproc[p].ret.value.itemsPerPage = <<"1", "0">>

\* C3 witness: a first getSettings has created and returned a record.
C3_Witness ==
    \E p \in DOMAIN sproc :
        /\ sproc[p].op = "getSettings" /\ DoneOk(p) /\ "create" \in sproc[p].did
        /\ sproc[p].ret.value.productsColumns = ToRows(<<"name", "code", "stock", "price">>)

\* C4: an updateTableColumnsAction call with an empty columns list ends at
\* once with an error and has written nothing: no settings record is created
\* or changed by it.
C4_EmptyColumnsRejected ==
    \A p \in DOMAIN sproc :
        (sproc[p].op = "updateTableColumnsAction" /\ sproc[p].columns = <<>>) =>
            /\ Done(p)
            /\ sproc[p].ret.status = "error"
            /\ sproc[p].tableName \in TableNames
                  => sproc[p].ret.error = "Debe seleccionar al menos una columna"
            /\ sproc[p].did = {}

\* C4 witness: an authenticated user who has a stored record was refused an
\* empty list for one of its tables.
C4_Witness ==
    \E p \in DOMAIN sproc :
        /\ sproc[p].op = "updateTableColumnsAction" /\ sproc[p].columns = <<>>
        /\ sproc[p].userId \in UserIds
        /\ sproc[p].tableName \in TableNames
        /\ Done(p) /\ sproc[p].ret.status = "error"
        /\ \E d \in DocsOf(sproc[p].userId) : Len(d[FieldName(sproc[p].tableName)]) > 0

\* C5 (as claimed): updateTableColumns fails when columns is empty, and a call
\* that succeeds has stored exactly the given columns in the given order.
C5_EmptyListFails ==
    \A p \in DOMAIN sproc :
        (sproc[p].op = "updateTableColumns" /\ Done(p)) =>
            /\ sproc[p].columns = <<>> => sproc[p].ret.status = "error"
            /\ sproc[p].ret.status = "ok" =>
                  FromRows(sproc[p].ret.value[FieldName(sproc[p].tableName)]) = sproc[p].columns

\* C5 (amended): updateTableColumns does not reject the empty list. A call
\* that returns has stored exactly the given columns in the given order, the
\* empty list included; a call fails only when the update is refused because
\* a column name is the empty string, or when its getSettings rethrew the
\* error of its create.
C5_ReplacesAnyList ==
    \A p \in DOMAIN sproc :
        (sproc[p].op = "updateTableColumns" /\ Done(p)) =>
            /\ sproc[p].ret.status = "ok" =>
                  FromRows(sproc[p].ret.value[FieldName(sproc[p].tableName)]) = sproc[p].columns
            /\ sproc[p].ret.status = "error" =>
                  \/ sproc[p].ret.error = "ValidationError" /\ "" \in Range(sproc[p].columns)
                  \/ sproc[p].error # "" /\ sproc[p].ret.error = sproc[p].error
            /\ "" \notin Range(sproc[p].columns) /\ sproc[p].error = ""
                  => sproc[p].ret.status = "ok"

\* C5 witness: updateTableColumns was given the empty list, returned, and the
\* stored list of that table is empty.
C5_Witness ==
    \E p \in DOMAIN sproc :
        /\ sproc[p].op = "updateTableColumns" /\ DoneOk(p)
        /\ sproc[p].columns = <<>>
        /\ \E d \in DocsOf(sproc[p].userId) : d[FieldName(sproc[p].tableName)] = <<>>

-----------------------------------------------------------------------------
(* Properties of the pure readers                                           *)

\* C6: for a settings record or null and a table, getVisibleColumns (the
\* service's and the provider's) returns the stored column names in stored
\* order when the table's list is present and not empty, and DEFAULT_COLUMNS
\* of the table when the record is null or the list is absent or empty; the
\* stored products list [name, price] gives [name, price].
C6_VisibleColumns ==
    pureIn.fn \in {"getVisibleColumns", "context.getVisibleColumns"} =>
        LET s == pureIn.settings
            f == FieldName(pureIn.tableName)
            stored == s # Null /\ f \in DOMAIN s /\ s[f] # <<>>
        IN  /\ stored =>
                /\ Len(pureOut) = Len(s[f])
                /\ \A i \in 1..Len(s[f]) : pureOut[i] = s[f][i].column
            /\ ~stored => pureOut = DEFAULT_COLUMNS[pureIn.tableName]
            /\ (stored /\ s[f] = <<[column |-> "name"], [column |-> "price"]>>)
                  => pureOut = <<"name", "price">>

\* C6 witness: the stored products list [name, price] was read back as
\* [name, price], which is not the default list of products.
C6_Witness ==
    /\ pureIn.fn = "getVisibleColumns"
    /\ pureIn.tableName = "products"
    /\ pureIn.settings # Null
    /\ "productsColumns" \in DOMAIN pureIn.settings
    /\ pureIn.settings.productsColumns = <<[column |-> "name"], [column |-> "price"]>>
    /\ pureOut = <<"name", "price">>
    /\ pureOut # DEFAULT_COLUMNS.products

-----------------------------------------------------------------------------
(* Properties of invitations and registration                               *)

\* The invitations with the call's token that were valid when the call validated.
ValidWhenSeen(fr) ==
    {i \in fr.seen.matching : "usedAt" \notin DOMAIN i /\ i.expiresAt > fr.seen.at}

Validated(fr) == fr.seen # <<>>

InvalidInvitation == "Invitacion invalida o expirada"

\* C7: a registerUser call that starts after a call with the same token has returned
\* success never gets past validation: it returns an error, 'Invitacion invalida o
\* expirada' when its input passes the schema, and creates no user; and no invitation
\* ever has two users created from it.
C7_TokenUsedOnce ==
    /\ \A p \in RegProcs :
          rproc[p].late =>
             /\ rproc[p].did = {}
             /\ rproc[p].pc \in {"validate", "done"}
             /\ rproc[p].pc = "done" =>
                   /\ rproc[p].ret.status = "error"
                   /\ rproc[p].ret.error =
                         IF registerSchema(rproc[p].input) # ""
                         THEN registerSchema(rproc[p].input)
                         ELSE InvalidInvitation
    /\ \A i \in invitations : Cardinality({r \in registered : r[2] = i.id}) <= 1

\* A later call with a used token, made before the invitation's expiry, has been rejected.
C7_Witness ==
    \E p \in RegProcs, i \in invitations :
        /\ rproc[p].late
        /\ rproc[p].pc = "done"
        /\ rproc[p].ret.error = InvalidInvitation
        /\ i.token = rproc[p].input.token
        /\ "usedAt" \in DOMAIN i
        /\ i.expiresAt > now
        /\ \E r \in registered : r[2] = i.id

\* C8: a registerUser call whose token was valid at validation (an unused, unexpired
\* invitation) but whose email is not the invitation's returns 'El email no coincide
\* con la invitacion', creates no user and does not mark the invitation used.
C8_EmailMismatch ==
    \A p \in RegProcs :
        (/\ Validated(rproc[p])
         /\ \E i \in ValidWhenSeen(rproc[p]) : i.email # rproc[p].input.email)
        => /\ rproc[p].pc = "done"
           /\ rproc[p].ret.status = "error"
           /\ rproc[p].ret.error = "El email no coincide con la invitacion"
           /\ rproc[p].did = {}

\* A mismatched registration was rejected; the invitation is still unused and unexpired
\* and nobody has been registered.
C8_Witness ==
    \E p \in RegProcs, i \in invitations :
        /\ rproc[p].pc = "done"
        /\ rproc[p].ret.error = "El email no coincide con la invitacion"
        /\ i.token = rproc[p].input.token
        /\ i.email # rproc[p].input.email
        /\ "usedAt" \notin DOMAIN i
        /\ i.expiresAt > now
        /\ users = InitialUsers

\* C9: a registerUser call creates a user only if, when it validated, an invitation
\* with its token was unused and had expiresAt strictly later than that instant; a
\* call that validated with no such invitation returns 'Invitacion invalida o
\* expirada' and writes neither a user nor an invitation.
C9_ValidAtValidation ==
    \A p \in RegProcs :
        /\ "createUser" \in rproc[p].did =>
              Validated(rproc[p]) /\ ValidWhenSeen(rproc[p]) # {}
        /\ (Validated(rproc[p]) /\ ValidWhenSeen(rproc[p]) = {}) =>
              /\ rproc[p].pc = "done"
              /\ rproc[p].ret.status = "error"
              /\ rproc[p].ret.error = InvalidInvitation
              /\ rproc[p].did = {}

\* A call validated at the very instant its unused invitation expired, and was rejected.
C9_Witness ==
    \E p \in RegProcs :
        /\ rproc[p].pc = "done"
        /\ rproc[p].ret.error = InvalidInvitation
        /\ Validated(rproc[p])
        /\ \E i \in rproc[p].seen.matching :
              /\ "usedAt" \notin DOMAIN i
              /\ i.email = rproc[p].input.email
              /\ i.expiresAt = rproc[p].seen.at

\* C10: every stored invitation carries a generated token and expiresAt = createdAt +
\* seven days whatever the client sent; no step changes an invitation's token or
\* expiresAt; and a registration that validates at or after createdAt + seven days
\* is rejected and creates nothing.
C10_ServerGenerated ==
    /\ [](\A i \in invitations :
             /\ i.token \in RandomTokens
             /\ i.expiresAt = i.createdAt + SevenDays)
    /\ [][\A i \in invitations : \E j \in invitations' :
             /\ j.id = i.id
             /\ j.token = i.token
             /\ j.expiresAt = i.expiresAt]_vars
    /\ [](\A i \in invitations :
             (/\ Validated(rproc[Invitee])
              /\ rproc[Invitee].input.token = i.token
              /\ rproc[Invitee].seen.at >= i.createdAt + SevenDays)
             => /\ rproc[Invitee].pc = "done"
                /\ rproc[Invitee].ret.error = InvalidInvitation
                /\ rproc[Invitee].did = {})

\* The invitee registered with the right email exactly seven days after an invitation
\* was created, after a client was refused a change to it, and was rejected.
C10_Witness ==
    \E i \in invitations :
        /\ api.status = "forbidden"
        /\ rproc[Invitee].pc = "done"
        /\ Validated(rproc[Invitee])
        /\ rproc[Invitee].input.token = i.token
        /\ rproc[Invitee].input.email = i.email
        /\ rproc[Invitee].seen.at = i.createdAt + SevenDays
        /\ rproc[Invitee].ret.error = InvalidInvitation
        /\ "usedAt" \notin DOMAIN i

-----------------------------------------------------------------------------
(* Role-scoped access to the owned-resource collections and to 'users'      *)
(* through Payload's REST API.                                              *)

MaxRecords == 1      \* documents created in the owned-resource collections

OwnerScoped ==
    {"products", "categories", "presentations", "product-variants", "product-custom-fields"}

OwnedCollections == OwnerScoped \cup {"clients"}

\* An admin, two owners, and one seller of each owner.
AccessUsers ==
    {[id |-> 1, name |-> <<"A", "d", "a">>, email |-> "admin@stocker.com", role |-> "admin"],
     [id |-> 2, name |-> <<"O", "t", "o">>, email |-> "owner@stocker.com", role |-> "owner"],
     [id |-> 3, name |-> <<"S", "o", "l">>, email |-> "sol@stocker.com", role |-> "seller",
      owner |-> 2],
     [id |-> 4, name |-> <<"S", "a", "m">>, email |-> "sam@stocker.com", role |-> "seller",
      owner |-> 5],
     [id |-> 5, name |-> <<"O", "l", "a">>, email |-> "ola@stocker.com", role |-> "owner"]}

\* What an access function returns: true, false, or a Where query on one field.
Allow == [kind |-> "all"]

Deny == [kind |-> "none"]

WhereEquals(field, value) == [kind |-> "where", field |-> field, equals |-> value]

\* The documents of `docs` an access result lets through.
Permitted(docs, result) ==
    IF result = Allow THEN docs
    ELSE IF result = Deny THEN {}
    ELSE {d \in docs : result.field \in DOMAIN d /\ d[result.field] = result.equals}

\* Products.access.read
ProductsAccessRead(user) ==
    IF user = Null THEN Deny
    ELSE IF user.role = "admin" THEN Allow
    ELSE WhereEquals("owner", user.id)

\* Categories.access.read
CategoriesAccessRead(user) ==
    IF user = Null THEN Deny
    ELSE IF user.role = "admin" THEN Allow
    ELSE WhereEquals("owner", user.id)

\* Presentations.access.read
PresentationsAccessRead(user) ==
    IF user = Null THEN Deny
    ELSE IF user.role = "admin" THEN Allow
    ELSE WhereEquals("owner", user.id)

\* ProductVariants.access.read
ProductVariantsAccessRead(user) ==
    IF user = Null THEN Deny
    ELSE IF user.role = "admin" THEN Allow
    ELSE WhereEquals("owner", user.id)

\* ProductCustomFields.access.read
ProductCustomFieldsAccessRead(user) ==
    IF user = Null THEN Deny
    ELSE IF user.role = "admin" THEN Allow
    ELSE WhereEquals("owner", user.id)

\* Clients.access.read
ClientsAccessRead(user) ==
    IF user = Null THEN Deny
    ELSE IF user.role = "admin" THEN Allow
    ELSE IF user.role = "owner" THEN WhereEquals("owner", user.id)
    ELSE IF user.role = "seller" THEN WhereEquals("createdBy", user.id)
    ELSE Deny

\* a Users.access.read whose owner branch looks at the id alone
UsersAccessReadOwnId(user) ==
    IF user = Null THEN {}
    ELSE IF user.role = "admin" THEN {Allow}
    ELSE {WhereEquals("id", user.id)}

\* Users.access.read: the disjuncts of the query it returns
UsersAccessRead(user) ==
    IF user = Null THEN {}
    ELSE IF user.role = "admin" THEN {Allow}
    ELSE IF user.role = "owner"
    THEN {WhereEquals("id", user.id), WhereEquals("owner", user.id)}
    ELSE {WhereEquals("id", user.id)}

\* access.read of the collection with this slug
AccessRead(collection, user) ==
    CASE collection = "products" -> ProductsAccessRead(user)
      [] collection = "categories" -> CategoriesAccessRead(user)
      [] collection = "presentations" -> PresentationsAccessRead(user)
      [] collection = "product-variants" -> ProductVariantsAccessRead(user)
      [] collection = "product-custom-fields" -> ProductCustomFieldsAccessRead(user)
      [] collection = "clients" -> ClientsAccessRead(user)

\* access.create: admin or owner; on 'clients' a seller too
AccessCreate(collection, user) ==
    IF user = Null THEN FALSE
    ELSE IF collection = "clients" THEN user.role \in {"admin", "owner", "seller"}
    ELSE user.role = "admin" \/ user.role = "owner"

UserIdsOf(coll) == {u.id : u \in coll}

\* The document a create stores: owner (and createdBy on 'clients') as the client sent them.
NewRecord(collection, id, owner, createdBy) ==
    IF collection = "clients"
    THEN [collection |-> collection, id |-> id, owner |-> owner, createdBy |-> createdBy]
    ELSE [collection |-> collection, id |-> id, owner |-> owner]

IdOf(user) == IF user = Null THEN NoUser ELSE user.id

\* POST /api/<collection> as `actor`: the relationship fields must name existing users
ApiCreateRecord ==
    /\ recSeq < MaxRecords
    /\ \E actor \in users \cup {Null}, collection \in OwnedCollections,
          owner \in UserIdsOf(users), createdBy \in UserIdsOf(users) :
          /\ AccessCreate(collection, actor)
          /\ collection # "clients" => createdBy = owner
          /\ records' = records \cup {NewRecord(collection, recSeq + 1, owner, createdBy)}
          /\ recSeq' = recSeq + 1
    /\ UNCHANGED <<lastRead, settingsApi>>
    /\ UNCHANGED exceptAccess

\* GET /api/<collection> as `actor`
ApiRead ==
    /\ \E actor \in users \cup {Null}, collection \in OwnedCollections :
          LET result == AccessRead(collection, actor)
          IN  lastRead' =
                 [as |-> IdOf(actor), collection |-> collection,
                  status |-> IF result = Deny THEN "forbidden" ELSE "ok",
                  docs |-> Permitted({d \in records : d.collection = collection}, result)]
    /\ UNCHANGED <<records, recSeq, settingsApi>>
    /\ UNCHANGED exceptAccess

\* GET /api/users as `actor`
ApiReadUsers ==
    /\ \E actor \in users \cup {Null} :
          LET result == UsersAccessRead(actor)
          IN  lastRead' =
                 [as |-> IdOf(actor), collection |-> "users",
                  status |-> IF result = {} THEN "forbidden" ELSE "ok",
                  docs |-> UNION {Permitted(users, r) : r \in result}]
    /\ UNCHANGED <<records, recSeq, settingsApi>>
    /\ UNCHANGED exceptAccess

AccessInit ==
    /\ settings = {}
    /\ settingsSeq = 0
    /\ sproc = [p \in SettingsProcs |-> IdleFrame]
    /\ calls = 0
    /\ faults = 0
    /\ served = {}
    /\ PureIdle
    /\ users = AccessUsers
    /\ userSeq = 5
    /\ invitations = {}
    /\ invSeq = 0
    /\ now = 0
    /\ ticks = 0
    /\ rproc = [p \in RegProcs |-> NoFrame]
    /\ regCalls = 0
    /\ api = NoAnswer
    /\ succeeded = {}
    /\ registered = {}
    /\ AccessIdle
    /\ SessionIdle

NextAccess ==
    \/ ApiCreateRecord
    \/ ApiRead
    \/ ApiReadUsers

\* Users of every role create documents and read the collections.
SpecAccess == AccessInit /\ [][NextAccess]_vars

-----------------------------------------------------------------------------
(* The session: loginUser and logout (server actions), and the middleware   *)
(* that guards the routes. Pathnames are sequences of characters.           *)

PathRoot == <<"/">>

PathProducts == <<"/", "p", "r", "o", "d", "u", "c", "t", "s">>

PathSellers == <<"/", "s", "e", "l", "l", "e", "r", "s">>

PathAssignments == <<"/", "a", "s", "s", "i", "g", "n", "m", "e", "n", "t", "s">>

PathHistory == <<"/", "h", "i", "s", "t", "o", "r", "y">>

PathSales == <<"/", "s", "a", "l", "e", "s">>

PathStatistics == <<"/", "s", "t", "a", "t", "i", "s", "t", "i", "c", "s">>

PathSettings == <<"/", "s", "e", "t", "t", "i", "n", "g", "s">>

PathProfile == <<"/", "p", "r", "o", "f", "i", "l", "e">>

PathLogin == <<"/", "l", "o", "g", "i", "n">>

PathRegister == <<"/", "r", "e", "g", "i", "s", "t", "e", "r">>

\* A pathname the matcher does not list.
PathApi == <<"/", "a", "p", "i">>

StartsWith(pathname, route) ==
    /\ Len(route) <= Len(pathname)
    /\ SubSeq(pathname, 1, Len(route)) = route

\* middleware.ts: routeToFeature
routeToFeature ==
    {<<PathProducts, "FEATURE_PRODUCTS">>, <<PathSellers, "FEATURE_SELLERS">>,
     <<PathAssignments, "FEATURE_ASSIGNMENTS">>, <<PathHistory, "FEATURE_HISTORY">>,
     <<PathSales, "FEATURE_SALES">>, <<PathStatistics, "FEATURE_STATISTICS">>,
     <<PathSettings, "FEATURE_SETTINGS">>}

\* middleware.ts: publicRoutes
publicRoutes == {PathLogin, PathRegister}

\* middleware.ts: config.matcher
matcher ==
    {PathRoot, PathProducts, PathSellers, PathAssignments, PathHistory, PathSales,
     PathStatistics, PathSettings, PathProfile, PathLogin, PathRegister}

Next_ == [kind |-> "next", location |-> "", redirect |-> ""]

\* a test that takes any value of the variable for 'enabled'
isEnabledWhenSet(environment, key) == \E kv \in environment.flags : kv[1] = key

\* process.env[featureEnvKey] === 'true' (flags holds the variables that are set)
isEnabled(environment, key) == <<key, "true">> \in environment.flags

Redirect(location, redirectParam) ==
    [kind |-> "redirect", location |-> location, redirect |-> redirectParam]

\* a middleware that lets the request through whatever the cookie
middlewareNoAuthCheck(pathname, token, environment) ==
    LET isAuthenticated == token # Null /\ token.value # ""
        isPublicRoute == \E route \in publicRoutes : StartsWith(pathname, route)
        featureEnvKey == {kv[2] : kv \in {x \in routeToFeature : x[1] = pathname}}
    IN  IF isPublicRoute
        THEN IF isAuthenticated THEN Redirect("/", "") ELSE Next_
        ELSE IF \E key \in featureEnvKey : ~isEnabled(environment, key)
        THEN Redirect("/", "")
        ELSE Next_

\* middleware.ts: middleware(request), for the request's pathname and 'payload-token' cookie
middleware(pathname, token, environment) ==
    LET isAuthenticated == token # Null /\ token.value # ""
        isPublicRoute == \E route \in publicRoutes : StartsWith(pathname, route)
        featureEnvKey == {kv[2] : kv \in {x \in routeToFeature : x[1] = pathname}}
    IN  IF isPublicRoute
        THEN IF isAuthenticated THEN Redirect("/", "") ELSE Next_
        ELSE IF ~isAuthenticated
        THEN Redirect("/login", pathname)
        ELSE IF \E key \in featureEnvKey : ~isEnabled(environment, key)
        THEN Redirect("/", "")
        ELSE Next_

\* What Next.js answers: the middleware runs only on the pathnames the matcher lists.
Route(pathname, token, environment) ==
    IF pathname \in matcher THEN middleware(pathname, token, environment) ELSE Next_

RequestPaths == matcher \cup {PathApi}

\* The users of the session model: the admin and the owner, with their passwords.
SessionUsers ==
    {[id |-> 1, name |-> <<"A", "d", "a">>, email |-> "admin@stocker.com", role |-> "admin",
      password |-> "right", isActive |-> TRUE],
     [id |-> 2, name |-> <<"O", "t", "o">>, email |-> "owner@stocker.com", role |-> "owner",
      password |-> "right", isActive |-> TRUE]}

FeatureKeys == {kv[2] : kv \in routeToFeature}

\* The environments a deployment runs in: nothing set; every flag 'true' in production;
\* one flag 'true', the others set to something else.
Environments ==
    {DefaultEnv,
     [NODE_ENV |-> "production", flags |-> {<<k, "true">> : k \in FeatureKeys}],
     [NODE_ENV |-> "development",
      flags |-> {<<"FEATURE_PRODUCTS", "true">>, <<"FEATURE_SELLERS", "TRUE">>,
                 <<"FEATURE_SETTINGS", "false">>, <<"FEATURE_SALES", "1">>}]}

\* loginSchema: the first message of a failed parse, or ""
loginSchema(input) ==
    IF ~IsEmail(input.email) THEN "Email invalido"
    ELSE IF input.password = "" THEN "La contrasena es requerida"
    ELSE ""

LoginInputs ==
    {[email |-> e, password |-> pw] :
        e \in {"admin@stocker.com", "owner@stocker.com", "bob@mail.com", "not-an-email"},
        pw \in {"right", "wrong", ""}}

\* The JWT Payload signs for a user.
TokenOf(user) == "jwt:" \o user.email

\* payload.login: the user with this email and password and its token, or Null when it throws
PayloadLogin(coll, data) ==
    LET found == {u \in coll : u.email = data.email /\ u.password = data.password}
    IN  IF found = {} THEN Null
        ELSE LET user == CHOOSE u \in found : TRUE
             IN  [user |-> user, token |-> TokenOf(user)]

\* a loginUser service that trusts every known email
loginUserServiceAnyPassword(coll, data) ==
    LET found == {u \in coll : u.email = data.email}
    IN  IF found = {} THEN [success |-> FALSE, error |-> "Credenciales invalidas"]
        ELSE [success |-> TRUE, token |-> TokenOf(CHOOSE u \in found : TRUE)]

\* services/users.ts: loginUser
loginUserService(coll, data) ==
    LET result == PayloadLogin(coll, data)
    IN  IF result = Null THEN [success |-> FALSE, error |-> "Credenciales invalidas"]
        ELSE IF result.token = "" THEN [success |-> FALSE, error |-> "Credenciales invalidas"]
        ELSE [success |-> TRUE, token |-> result.token]

\* cookieStore.set('payload-token', token, { httpOnly, secure, path, sameSite })
SessionCookie(token, environment) ==
    [value |-> token, httpOnly |-> TRUE, secure |-> environment.NODE_ENV = "production",
     path |-> "/", sameSite |-> "lax"]

\* components/auth/actions.ts: loginUser
LoginUser ==
    /\ \E input \in LoginInputs :
          LET result == loginUserService(users, input)
              matched == {u \in users : u.email = input.email /\ u.password = input.password}
              who == IF matched = {} THEN Null ELSE CHOOSE u \in matched : TRUE
          IN  IF loginSchema(input) # ""
              THEN /\ sessionOp' = [op |-> "login", input |-> input, user |-> Null,
                                    ret |-> RegError(loginSchema(input))]
                   /\ UNCHANGED <<cookie, loggedOut>>
              ELSE IF ~result.success
              THEN /\ sessionOp' = [op |-> "login", input |-> input, user |-> Null,
                                    ret |-> RegError(result.error)]
                   /\ UNCHANGED <<cookie, loggedOut>>
              ELSE /\ cookie' = SessionCookie(result.token, env)
                   /\ sessionOp' = [op |-> "login", input |-> input, user |-> who,
                                    ret |-> RegSuccess]
                   /\ loggedOut' = FALSE
    /\ UNCHANGED <<response, env, ui>>
    /\ UNCHANGED <<svars, pvars, ivars, avars>>

\* components/layout/actions.ts: logout
Logout ==
    /\ cookie' = Null
    /\ sessionOp' = [op |-> "logout", input |-> <<>>, user |-> Null, ret |-> RegSuccess]
    /\ loggedOut' = TRUE
    /\ UNCHANGED <<response, env, ui>>
    /\ UNCHANGED <<svars, pvars, ivars, avars>>

\* The browser requests a page, sending its cookie.
Request ==
    /\ \E pathname \in RequestPaths :
          response' = Route(pathname, cookie, env) @@
                      [pathname |-> pathname, cookie |-> cookie, browser |-> TRUE,
                       loggedOut |-> loggedOut]
    /\ UNCHANGED <<cookie, sessionOp, env, loggedOut, ui>>
    /\ UNCHANGED <<svars, pvars, ivars, avars>>

\* The 'payload-token' cookies any client may send.
ForeignCookies == {Null, [value |-> ""], [value |-> "forged"]}

\* Some other client requests a page with a cookie of its choice.
RequestWithCookie ==
    /\ \E pathname \in RequestPaths, token \in ForeignCookies :
          response' = Route(pathname, token, env) @@
                      [pathname |-> pathname, cookie |-> token, browser |-> FALSE,
                       loggedOut |-> FALSE]
    /\ UNCHANGED <<cookie, sessionOp, env, loggedOut, ui>>
    /\ UNCHANGED <<svars, pvars, ivars, avars>>

\* Users.access.update: an admin, or the user itself
UsersAccessUpdate(user, doc) ==
    IF user = Null THEN FALSE
    ELSE IF user.role = "admin" THEN TRUE
    ELSE doc.id = user.id

\* PATCH /api/users/:id { isActive } as `actor`
ApiUpdateIsActive ==
    /\ \E actor \in users, doc \in users, value \in BOOLEAN :
          /\ UsersAccessUpdate(actor, doc)
          /\ users' = (users \ {doc}) \cup {[doc EXCEPT !.isActive = value]}
    /\ UNCHANGED <<userSeq, invitations, invSeq, now, ticks, rproc, regCalls, api, succeeded,
                   registered>>
    /\ UNCHANGED <<svars, pvars, avars, xvars>>

SessionInit ==
    /\ settings = {}
    /\ settingsSeq = 0
    /\ sproc = [p \in SettingsProcs |-> IdleFrame]
    /\ calls = 0
    /\ faults = 0
    /\ served = {}
    /\ PureIdle
    /\ users = SessionUsers
    /\ userSeq = 2
    /\ invitations = {}
    /\ invSeq = 0
    /\ now = 0
    /\ ticks = 0
    /\ rproc = [p \in RegProcs |-> NoFrame]
    /\ regCalls = 0
    /\ api = NoAnswer
    /\ succeeded = {}
    /\ registered = {}
    /\ AccessIdle
    /\ cookie = Null
    /\ sessionOp = NoSessionOp
    /\ response = NoResponse
    /\ env \in Environments
    /\ loggedOut = FALSE
    /\ ui = NoUi

NextSession ==
    \/ LoginUser
    \/ Logout
    \/ Request
    \/ RequestWithCookie
    \/ ApiUpdateIsActive

\* Users log in and out, pages are requested, accounts are switched on and off.
SpecSession == SessionInit /\ [][NextSession]_vars

-----------------------------------------------------------------------------
(* The 'settings' collection through Payload's REST API, where the request  *)
(* carries a user.                                                          *)

\* Settings.access.create
SettingsAccessCreate(user) == user # Null

\* Settings.access.update
SettingsAccessUpdate(user) ==
    IF user = Null THEN Deny
    ELSE IF user.role = "admin" THEN Allow
    ELSE WhereEquals("user", user.id)

\* What a client may send as a settings document.
SettingsApiData ==
    {[itemsPerPage |-> <<"2", "5">>]}
    \cup {[user |-> u, itemsPerPage |-> <<"5", "0">>] : u \in UserIds}

\* POST /api/settings as `actor`
ApiCreateSettings ==
    /\ \E actor \in users \cup {Null}, sent \in SettingsApiData :
          LET data == SettingsBeforeChange(IdOf(actor), sent)
          IN  IF ~SettingsAccessCreate(actor)
              THEN /\ settingsApi' = [op |-> "create", as |-> IdOf(actor), id |-> 0,
                                       status |-> "forbidden"]
                   /\ UNCHANGED <<settings, settingsSeq>>
              ELSE IF ~CreateSettingsAccepted(settings, data)
              THEN /\ settingsApi' = [op |-> "create", as |-> IdOf(actor), id |-> 0,
                                       status |-> "error"]
                   /\ UNCHANGED <<settings, settingsSeq>>
              ELSE /\ settings' = settings \cup {[id |-> settingsSeq + 1] @@ data}
                   /\ settingsSeq' = settingsSeq + 1
                   /\ settingsApi' = [op |-> "create", as |-> IdOf(actor),
                                       id |-> settingsSeq + 1, status |-> "ok"]
    /\ UNCHANGED <<sproc, calls, faults, served, records, recSeq, lastRead>>
    /\ UNCHANGED <<pvars, ivars, xvars>>

\* PATCH /api/settings/:id as `actor`
ApiUpdateSettings ==
    /\ \E actor \in users \cup {Null}, doc \in settings, sent \in SettingsApiData :
          LET data == SettingsBeforeChange(IdOf(actor), sent)
          IN  IF Permitted({doc}, SettingsAccessUpdate(actor)) = {}
              THEN /\ settingsApi' = [op |-> "update", as |-> IdOf(actor), id |-> doc.id,
                                       status |-> "forbidden"]
                   /\ UNCHANGED settings
              ELSE IF ~UpdateSettingsAccepted(settings, doc.id, data)
              THEN /\ settingsApi' = [op |-> "update", as |-> IdOf(actor), id |-> doc.id,
                                       status |-> "error"]
                   /\ UNCHANGED settings
              ELSE /\ settings' = (settings \ {doc}) \cup {[id |-> doc.id] @@ data @@ doc}
                   /\ settingsApi' = [op |-> "update", as |-> IdOf(actor), id |-> doc.id,
                                       status |-> "ok"]
    /\ UNCHANGED <<settingsSeq, sproc, calls, faults, served, records, recSeq, lastRead>>
    /\ UNCHANGED <<pvars, ivars, xvars>>

NextSettingsApi ==
    \/ ApiCreateSettings
    \/ ApiUpdateSettings

\* The admin and the owner create and update settings documents through the API.
SpecSettingsApi == SettingsInit /\ [][NextSettingsApi]_vars

-----------------------------------------------------------------------------
(* components/settings/table-columns-config.tsx: the column editor          *)

\* prev.includes(column)
Includes(prev, column) == column \in Range(prev)

\* The function handleToggle hands to setColumns.
handleToggle(prev, column) ==
    IF Includes(prev, column)
    THEN IF Len(prev) = 1 THEN prev
         ELSE SelectSeq(prev, LAMBDA c : c # column)
    ELSE Append(prev, column)

\* const availableColumns = TABLE_COLUMNS[tableName]
availableColumns(tableName) == TABLE_COLUMNS[tableName]

\* A checkbox of the editor is clicked.
HandleToggle ==
    /\ ui.tableName # ""
    /\ \E column \in Range(availableColumns(ui.tableName)) :
          ui' = [ui EXCEPT !.columns = handleToggle(ui.columns, column)]
    /\ UNCHANGED <<cookie, sessionOp, response, env, loggedOut>>
    /\ UNCHANGED <<svars, pvars, ivars, avars>>

\* 'Seleccionar todas'
HandleSelectAll ==
    /\ ui.tableName # ""
    /\ ui' = [ui EXCEPT !.columns = availableColumns(ui.tableName)]
    /\ UNCHANGED <<cookie, sessionOp, response, env, loggedOut>>
    /\ UNCHANGED <<svars, pvars, ivars, avars>>

\* 'Mínimo'
HandleSelectMinimum ==
    /\ ui.tableName # ""
    /\ ui' = [ui EXCEPT !.columns = MINIMUM_COLUMNS[ui.tableName]]
    /\ UNCHANGED <<cookie, sessionOp, response, env, loggedOut>>
    /\ UNCHANGED <<svars, pvars, ivars, avars>>

\* The non-empty lists updateTableColumnsAction stores for a table, which the settings
\* page then passes to the editor as initialColumns: the defaults, the minimum, one
\* column, one column twice.
InitialColumns(tableName) ==
    {l \in {DEFAULT_COLUMNS[tableName], MINIMUM_COLUMNS[tableName],
            <<TABLE_COLUMNS[tableName][1]>>,
            <<TABLE_COLUMNS[tableName][1], TABLE_COLUMNS[tableName][1]>>} :
        /\ updateTableColumnsSchema([tableName |-> tableName, columns |-> l]) = ""
        /\ validateColumnsForTable(tableName, l)}

\* useState(initialColumns)
Mounted ==
    UNION {{[tableName |-> t, initialColumns |-> l, columns |-> l] : l \in InitialColumns(t)} :
           t \in TableNames}

UiInit ==
    /\ settings = {}
    /\ settingsSeq = 0
    /\ sproc = [p \in SettingsProcs |-> IdleFrame]
    /\ calls = 0
    /\ faults = 0
    /\ served = {}
    /\ PureIdle
    /\ InviteIdle
    /\ AccessIdle
    /\ cookie = Null
    /\ sessionOp = NoSessionOp
    /\ response = NoResponse
    /\ env = DefaultEnv
    /\ loggedOut = FALSE
    /\ ui \in Mounted

NextUi ==
    \/ HandleToggle
    \/ HandleSelectAll
    \/ HandleSelectMinimum

\* One editor, mounted on a stored list, and the clicks on its controls.
SpecUi == UiInit /\ [][NextUi]_vars

-----------------------------------------------------------------------------
(* Properties of role-scoped access                                         *)

\* The user a read was performed as (Null when unauthenticated).
Reader == IF lastRead.as = NoUser THEN Null ELSE CHOOSE u \in users : u.id = lastRead.as

\* C11: a read of an owned-resource collection returns a record owned by A only to
\* an admin, to A, or to a seller linked to A; an unauthenticated read returns nothing.
C11_NoUnrelatedRead ==
    lastRead.collection \in OwnedCollections =>
        \A d \in lastRead.docs :
            /\ Reader # Null
            /\ \/ Reader.role = "admin"
               \/ Reader.id = d.owner
               \/ Reader.role = "seller" /\ Reader.owner = d.owner

\* C12: a read of an owner-scoped collection performed as a seller returns only
\* records whose owner is the owner the seller is linked to.
C12_SellerReadsOwnersRecords ==
    (/\ lastRead.collection \in OwnerScoped
     /\ Reader # Null
     /\ Reader.role = "seller")
    => \A d \in lastRead.docs : d.owner = Reader.owner

\* What Users.access.read is meant to let `user` see.
VisibleUsers(user) ==
    IF user = Null THEN {}
    ELSE IF user.role = "admin" THEN users
    ELSE IF user.role = "owner"
    THEN {u \in users : u.id = user.id \/ ("owner" \in DOMAIN u /\ u.owner = user.id)}
    ELSE {u \in users : u.id = user.id}

\* C13: a read of 'users' returns every user to an admin, the owner and its sellers
\* to an owner, the seller alone to a seller, and nothing without a session.
C13_UsersRead ==
    lastRead.collection = "users" => lastRead.docs = VisibleUsers(Reader)

\* An owner has read 'users' and got itself and its one seller.
C13_Witness ==
    /\ lastRead.collection = "users"
    /\ Reader # Null
    /\ Reader.role = "owner"
    /\ Cardinality(lastRead.docs) = 2

-----------------------------------------------------------------------------
(* Properties of the session, the middleware and the settings actions       *)

ProtectedRoutes == matcher \ publicRoutes

RedirectedToLogin(r) ==
    /\ r.kind = "redirect"
    /\ r.location = "/login"
    /\ r.redirect = r.pathname

\* C14: the cookie changes only in a logout, which clears it, or in a loginUser call
\* whose email and password are a user's, which sets it to that user's token, HTTP-only
\* with path '/'; a login whose credentials match nobody returns 'Credenciales
\* invalidas' and leaves the cookie as it was; from a logout until the next successful
\* login there is no cookie and every browser request to a protected route is
\* redirected to /login.
C14_SessionCookie ==
    /\ [][cookie' # cookie =>
             \/ sessionOp'.op = "logout" /\ cookie' = Null
             \/ /\ sessionOp'.op = "login"
                /\ sessionOp'.ret = RegSuccess
                /\ cookie' # Null
                /\ \E u \in users : /\ u.email = sessionOp'.input.email
                                    /\ u.password = sessionOp'.input.password
                                    /\ cookie'.value = TokenOf(u)
                /\ cookie'.httpOnly
                /\ cookie'.path = "/"]_vars
    /\ [][(sessionOp' # sessionOp /\ sessionOp'.op = "login"
           /\ sessionOp'.ret.status = "error") => cookie' = cookie]_vars
    /\ [][(sessionOp' # sessionOp /\ sessionOp'.op = "logout") => cookie' = Null]_vars
    /\ []((/\ sessionOp.op = "login"
           /\ loginSchema(sessionOp.input) = ""
           /\ ~\E u \in users : /\ u.email = sessionOp.input.email
                                /\ u.password = sessionOp.input.password)
          => sessionOp.ret = RegError("Credenciales invalidas"))
    /\ [](loggedOut => cookie = Null)
    /\ []((response.browser /\ response.loggedOut /\ response.pathname \in ProtectedRoutes)
          => RedirectedToLogin(response))

\* After a logout the browser asked for /settings and was sent to /login; then a login
\* with a wrong password failed and left the browser without a cookie.
C14_Witness ==
    /\ loggedOut
    /\ response.browser
    /\ response.loggedOut
    /\ response.pathname = PathSettings
    /\ RedirectedToLogin(response)
    /\ sessionOp.op = "login"
    /\ sessionOp.ret = RegError("Credenciales invalidas")
    /\ cookie = Null

\* The schema error of a settings action's input, or "".
ActionSchemaError(fr) ==
    IF fr.op = "updateTableColumnsAction"
    THEN updateTableColumnsSchema([tableName |-> fr.tableName, columns |-> fr.columns])
    ELSE IF fr.op = "updateItemsPerPageAction"
    THEN updateItemsPerPageSchema(fr.data)
    ELSE ""

SettingsActions ==
    {"getSettingsAction", "updateTableColumnsAction", "updateItemsPerPageAction",
     "getVisibleColumnsAction"}

\* C15 (as claimed): without an authenticated user each of the four settings actions
\* fails with 'No autenticado' and reads, creates and updates nothing.
C15_Unauthenticated ==
    \A p \in DOMAIN sproc :
        (sproc[p].op \in SettingsActions /\ sproc[p].userId = NoUser) =>
            /\ Done(p)
            /\ sproc[p].ret = Threw("No autenticado")
            /\ sproc[p].did = {}

\* C15 (amended): without an authenticated user each of the four settings actions ends
\* at once with an error and has touched no settings record; the error is 'No
\* autenticado' when the input passes the action's schema, and the schema's error
\* otherwise, since the schema is applied before getCurrentUser is called.
C15_UnauthenticatedAfterSchema ==
    \A p \in DOMAIN sproc :
        (sproc[p].op \in SettingsActions /\ sproc[p].userId = NoUser) =>
            /\ Done(p)
            /\ sproc[p].did = {}
            /\ sproc[p].settings = Null
            /\ sproc[p].ret =
                  IF ActionSchemaError(sproc[p]) # ""
                  THEN Threw(ActionSchemaError(sproc[p]))
                  ELSE Threw("No autenticado")

\* Without a user, a call with columns that pass the schema was refused with 'No
\* autenticado' while some user already had a record.
C15_Witness ==
    \E p \in DOMAIN sproc :
        /\ sproc[p].op = "updateTableColumnsAction"
        /\ sproc[p].userId = NoUser
        /\ sproc[p].columns # <<>>
        /\ sproc[p].ret = Threw("No autenticado")
        /\ settings # {}

\* C17: a loginUser call never succeeds for a user whose isActive is false.
C17_InactiveCannotLogin ==
    (sessionOp.op = "login" /\ sessionOp.ret = RegSuccess) => sessionOp.user.isActive

\* C20: a request to a matched non-public route that carries no 'payload-token' cookie,
\* or an empty one, is never let through: it is redirected to /login with redirect
\* set to the requested pathname.
C20_ProtectedRoutes ==
    (/\ response.kind # "none"
     /\ response.pathname \in ProtectedRoutes
     /\ (response.cookie = Null \/ response.cookie.value = ""))
    => RedirectedToLogin(response)

\* A request for /profile with an empty cookie was redirected, on a deployment where
\* every feature is enabled.
C20_Witness ==
    /\ response.pathname = PathProfile
    /\ response.cookie = [value |-> ""]
    /\ RedirectedToLogin(response)
    /\ \A k \in FeatureKeys : isEnabled(env, k)

\* C16: after every create or update of a settings document that the API accepted
\* from an authenticated user, the document's user is that user, whatever user the
\* client sent; and every step that creates a document or changes a document's user
\* leaves it with the user of the request.
C16_HookForcesUser ==
    /\ [](settingsApi.status = "ok" =>
             /\ settingsApi.as # NoUser
             /\ \E d \in settings : d.id = settingsApi.id /\ d.user = settingsApi.as)
    /\ [][\A d \in settings' :
             (d \notin settings /\ (\A o \in settings : o.id = d.id => o.user # d.user))
             => d.user = settingsApi'.as /\ settingsApi'.as # NoUser]_vars

\* The owner sent a document naming the admin as its user; the stored document is the
\* owner's.
C16_Witness ==
    /\ settingsApi.status = "ok"
    /\ settingsApi.as = 2
    /\ \E d \in settings : /\ d.id = settingsApi.id
                           /\ d.user = 2
                           /\ d.itemsPerPage = <<"5", "0">>

\* C19: in the column editor, started on a non-empty selection, no sequence of toggle,
\* select-all and select-minimum operations produces an empty selection.
C19_NeverEmpty == ui.tableName # "" => ui.columns # <<>>

\* The invitation a step has added, if any.
Added(before, after) == {i \in after : \A o \in before : o.id # i.id}

\* C18: an invitation is created only by an admin or an owner; an owner's create
\* succeeds only for role 'seller' and is refused with 'Solo podés invitar vendedores'
\* for the other permitted role; an admin's create with role 'seller' is refused with
\* 'Admins solo invitan owners'; a refused create stores no invitation.
C18_CreateRules ==
    /\ [](api.status = "created" =>
             /\ api.by \in {"admin", "owner"}
             /\ api.by = "owner" => api.role = "seller"
             /\ api.by = "admin" => api.role # "seller")
    /\ [](api.by = "owner" /\ api.role = "owner" =>
             api.status = "error" /\ api.error = "Solo podes invitar vendedores")
    /\ [](api.by = "owner" /\ api.role \notin {"owner", "seller"} => api.status = "error")
    /\ [](api.by = "admin" /\ api.role = "seller" =>
             api.status = "error" /\ api.error = "Admins solo invitan owners")
    /\ [](api.by \in {"", "seller"} /\ api.status # "none" => api.status = "forbidden")
    /\ [][\A i \in Added(invitations, invitations') :
             /\ api'.status = "created"
             /\ i.role = api'.role
             /\ \E u \in users : /\ u.id = i.createdBy
                                 /\ u.role = api'.by
                                 /\ u.role \in {"admin", "owner"}
                                 /\ u.role = "owner" => i.role = "seller"
                                 /\ u.role = "admin" => i.role = "owner"]_vars
    /\ [][api'.status \in {"error", "forbidden"} /\ api' # api
             => invitations' = invitations]_vars

\* An owner who had invited a seller asked for an owner's invitation and was refused;
\* the collection holds the seller's invitation only.
C18_Witness ==
    /\ api.by = "owner"
    /\ api.role = "owner"
    /\ api.error = "Solo podes invitar vendedores"
    /\ \E i \in invitations : i.role = "seller" /\ i.createdBy = 2
    /\ \A i \in invitations : i.role = "seller"

-----------------------------------------------------------------------------
(* Properties of the page size, the feature flags and the settings frame    *)

\* C21: getItemsPerPage returns one of 10, 25, 50, 100: the stored string's integer
\* when that is one of the four, and 10 when the document is null, the field absent or
\* empty, or the string parses to anything else; the service's function and the
\* provider's give the same answer for the same document.
C21_ItemsPerPage ==
    pureIn.fn \in {"getItemsPerPage", "context.getItemsPerPage"} =>
        LET s == pureIn.settings
            stored == s # Null /\ "itemsPerPage" \in DOMAIN s
        IN  /\ pureOut \in {10, 25, 50, 100}
            /\ ~stored => pureOut = 10
            /\ stored => \A i \in DOMAIN ITEMS_PER_PAGE_OPTIONS :
                   s.itemsPerPage = NumberToString(ITEMS_PER_PAGE_OPTIONS[i])
                      => pureOut = ITEMS_PER_PAGE_OPTIONS[i]
            /\ stored /\ IsOption(parseInt(s.itemsPerPage))
                  => pureOut = parseInt(s.itemsPerPage).n
            /\ stored /\ ~IsOption(parseInt(s.itemsPerPage)) => pureOut = 10
            /\ pureOut = getItemsPerPage(s)
            /\ pureOut = ContextGetItemsPerPage(ContextState(s))

\* The stored '1000' parses to a number that is no option, and the provider answered 10.
C21_Witness ==
    /\ pureIn.fn = "context.getItemsPerPage"
    /\ pureIn.settings # Null
    /\ "itemsPerPage" \in DOMAIN pureIn.settings
    /\ pureIn.settings.itemsPerPage = <<"1", "0", "0", "0">>
    /\ pureOut = 10

\* The request the last response answered carried a cookie with a value.
AnsweredAuthenticated ==
    /\ response.kind # "none"
    /\ response.cookie # Null
    /\ response.cookie.value # ""

\* C22: an authenticated request to a route with a feature flag is let through only
\* if the route's variable is exactly 'true' and is redirected to '/' otherwise; an
\* authenticated request to /login or /register is redirected to '/'.
C22_FeatureFlags ==
    AnsweredAuthenticated =>
        /\ \A kv \in routeToFeature :
              response.pathname = kv[1] =>
                 IF <<kv[2], "true">> \in env.flags
                 THEN response.kind = "next"
                 ELSE response.kind = "redirect" /\ response.location = "/"
        /\ response.pathname \in {PathLogin, PathRegister} =>
              response.kind = "redirect" /\ response.location = "/"

\* A logged-in browser asked for /sellers where FEATURE_SELLERS is 'TRUE' and was sent
\* to '/'.
C22_Witness ==
    /\ AnsweredAuthenticated
    /\ response.browser
    /\ response.pathname = PathSellers
    /\ <<"FEATURE_SELLERS", "TRUE">> \in env.flags
    /\ response.kind = "redirect"
    /\ response.location = "/"

\* C23: a getSettings whose create failed finds again. If that find returns nothing,
\* the call ends by throwing the error of the create, the store is as it was and holds
\* no record of the user; if it returns a record, the call goes on with that record and
\* no error reaches the caller. A failed create always leads to the second find.
C23_RetryThenRethrow ==
    /\ [][\A p \in DOMAIN sproc :
             (sproc[p].pc = "gs_retry" /\ sproc'[p] # sproc[p]) =>
                IF DocsOf(sproc[p].userId) = {}
                THEN /\ sproc'[p].pc = "done"
                     /\ sproc'[p].ret = Threw(sproc[p].error)
                     /\ sproc[p].error \in {"unique", "fault"}
                     /\ settings' = settings
                     /\ \A d \in settings' : d.user # sproc[p].userId
                ELSE /\ sproc'[p].ret.status # "error"
                     /\ sproc'[p] = AfterGetSettings(sproc[p], NewestFirst(DocsOf(sproc[p].userId))[1])
                     /\ settings' = settings]_vars
    /\ [][\A p \in DOMAIN sproc :
             (sproc[p].pc = "gs_create" /\ sproc'[p] # sproc[p] /\ "create" \notin sproc'[p].did)
                => sproc'[p].pc = "gs_retry" /\ sproc'[p].error # "" /\ settings' = settings]_vars
    /\ [](\A p \in DOMAIN sproc :
             (Done(p) /\ sproc[p].op = "getSettings" /\ sproc[p].ret.status = "error")
                => sproc[p].error # "" /\ sproc[p].ret.error = sproc[p].error)

\* A getSettings call's create failed, its second find found nothing, and the call has
\* thrown the create's error; the user has no record.
C23_Witness ==
    \E p \in DOMAIN sproc :
        /\ sproc[p].op = "getSettings"
        /\ Done(p)
        /\ sproc[p].error = "fault"
        /\ sproc[p].ret = Threw("fault")
        /\ DocsOf(sproc[p].userId) = {}

\* The step's writes are confined to field f of the records of user u: every record of
\* another user is as it was, and every record of u keeps its id and every other field.
OnlyFieldChanged(u, f) ==
    /\ {d.id : d \in settings'} = {d.id : d \in settings}
    /\ \A d \in settings :
          IF d.user # u THEN d \in settings'
          ELSE \E a \in settings' :
                  /\ a.id = d.id
                  /\ DOMAIN a \ {f} = DOMAIN d \ {f}
                  /\ \A k \in DOMAIN d \ {f} : a[k] = d[k]

-----------------------------------------------------------------------------
(* Properties of the users registerUser creates                             *)

\* The user and the invitation of a registration.
UserOf(r) == CHOOSE u \in users : u.id = r[1]
InvitationOf(r) == CHOOSE i \in invitations : i.id = r[2]

\* C26: every user registerUser created has the invitation's role (owner or seller,
\* never admin) and the invitation's email; a seller's owner is the invitation's
\* creator, and an owner has no owner field. Every user beyond the initial ones was
\* created from an invitation.
C26_RoleFromInvitation ==
    /\ \A r \in registered :
          /\ \E u \in users : u.id = r[1]
          /\ \E i \in invitations : i.id = r[2]
          /\ UserOf(r).role = InvitationOf(r).role
          /\ UserOf(r).role \in {"owner", "seller"}
          /\ UserOf(r).email = InvitationOf(r).email
          /\ InvitationOf(r).role = "seller" =>
                /\ "owner" \in DOMAIN UserOf(r)
                /\ UserOf(r).owner = InvitationOf(r).createdBy
          /\ InvitationOf(r).role = "owner" => "owner" \notin DOMAIN UserOf(r)
    /\ \A u \in users \ InitialUsers : \E r \in registered : r[1] = u.id

\* An owner and a seller have registered: the seller belongs to the owner who invited
\* it, the owner to nobody.
C26_Witness ==
    \E a, b \in registered :
        /\ UserOf(a).role = "seller"
        /\ UserOf(a).owner = 2
        /\ InvitationOf(a).createdBy = 2
        /\ UserOf(b).role = "owner"
        /\ "owner" \notin DOMAIN UserOf(b)

\* C27: within a registerUser call the invitation is marked used only after the
\* call's createUser succeeded. A call that returned success created a user and its
\* invitation has usedAt; a call whose createUser failed returned that error and wrote
\* nothing; and usedAt is only ever set by a call that has created its user.
C27_MarkedAfterCreate ==
    /\ [](\A p \in RegProcs :
             /\ "markUsed" \in rproc[p].did => "createUser" \in rproc[p].did
             /\ (rproc[p].pc = "done" /\ rproc[p].ret = RegSuccess) =>
                   /\ rproc[p].did = {"createUser", "markUsed"}
                   /\ \E i \in invitations : i.id = rproc[p].invitation.id /\ "usedAt" \in DOMAIN i
             /\ (rproc[p].pc = "done" /\ rproc[p].ret.status = "error") => rproc[p].did = {}
             /\ rproc[p].pc = "mark" => "createUser" \in rproc[p].did)
    /\ [][\A p \in RegProcs :
             (rproc[p].pc \in {"cu_find", "cu_create"} /\ rproc'[p].pc = "done") =>
                /\ rproc'[p].ret.status = "error"
                /\ rproc'[p].ret.error \in {"El email ya esta registrado",
                                            "Error al crear el usuario"}
                /\ invitations' = invitations
                /\ users' = users]_vars
    /\ [][\A i \in invitations' :
             ("usedAt" \in DOMAIN i /\ i \notin invitations) =>
                \E p \in RegProcs : /\ rproc[p].pc = "mark"
                                    /\ rproc[p].invitation.id = i.id
                                    /\ "createUser" \in rproc[p].did
                                    /\ rproc'[p].ret = RegSuccess]_vars

\* A call's createUser found the email registered: the call returned the error and
\* its invitation, still valid, has no usedAt.
C27_Witness ==
    \E p \in RegProcs, i \in invitations :
        /\ rproc[p].pc = "done"
        /\ rproc[p].ret.error = "El email ya esta registrado"
        /\ rproc[p].invitation # Null
        /\ i.id = rproc[p].invitation.id
        /\ "usedAt" \notin DOMAIN i

\* C28: of the registerUser calls that carry one token, at most one returns success
\* and at most one creates a user, however their steps interleave: two calls that both
\* passed validateInvitation before either marked the invitation end with one success
\* and one createUser error.
C28_OneWinner ==
    /\ \A p, q \in RegProcs :
          (/\ p # q
           /\ rproc[p].input # <<>> /\ rproc[q].input # <<>>
           /\ rproc[p].input.token = rproc[q].input.token)
          => /\ ~("createUser" \in rproc[p].did /\ "createUser" \in rproc[q].did)
             /\ ~(rproc[p].ret = RegSuccess /\ rproc[q].ret = RegSuccess)
             /\ (/\ rproc[p].ret = RegSuccess
                 /\ rproc[q].pc = "done"
                 /\ rproc[q].invitation # Null
                 /\ rproc[q].invitation.id = rproc[p].invitation.id
                 /\ ~InvitationEmailDiffers(rproc[q].invitation, rproc[q].input))
                => rproc[q].ret.error \in {"El email ya esta registrado",
                                            "Error al crear el usuario"}
    /\ \A i \in invitations :
          Cardinality({u \in users \ InitialUsers : u.email = i.email}) <= 1

\* Both calls validated the same unused invitation; one has returned success, the
\* other's payload.create was refused for the email.
C28_Witness ==
    \E p, q \in RegProcs :
        /\ p # q
        /\ rproc[p].ret = RegSuccess
        /\ rproc[q].pc = "done"
        /\ rproc[q].ret.error = "Error al crear el usuario"
        /\ rproc[q].invitation # Null
        /\ rproc[q].invitation.id = rproc[p].invitation.id
        /\ rproc[q].input.token = rproc[p].input.token


-----------------------------------------------------------------------------
(* Properties of the SettingsProvider                                       *)

\* No call of the provider is in flight.
Quiet == \A p \in SettingsProcs : provider.pending[p] = "none"

\* The provider shows what the database holds for its user.
ShowsStored ==
    LET docs == FindSettingsByUser(settings, provider.user)
    IN  /\ docs # <<>>
        /\ \A f \in ColumnFields : provider.state[f] = FromRows(docs[1][f])
        /\ provider.state.itemsPerPage = docs[1].itemsPerPage

\* C29: once every call the provider has issued has completed, the column lists and the
\* page size of a provider that has fetched its settings equal the ones stored on the
\* server for its user, whatever the order in which the answers arrived.
C29_ProviderMatchesServer ==
    (provider.rendered /\ Quiet /\ provider.state.id # NoId) => ShowsStored

\* The provider shows the default columns and the default page size.
ShowsDefaults ==
    /\ \A t \in TableNames : provider.state[FieldName(t)] = DEFAULT_COLUMNS[t]
    /\ provider.state.itemsPerPage = NumberToString(DEFAULT_ITEMS_PER_PAGE)

\* The promise of the mount effect's getSettingsAction settles in this step.
LoadSettles(p) == provider.pending[p] = "load" /\ provider'.pending[p] = "none"

\* C30: the provider starts loading with the default columns and page size; the mount
\* effect issues getSettingsAction at most once however often it runs; when that fetch
\* settles isLoading becomes false, and if it answered without settings or rejected the
\* error is 'Error al cargar configuraciones' and the columns and page size stay as they
\* were, the defaults; and a provider that is loading eventually stops loading.
C30_InitialLoad ==
    /\ [](provider.effects = 0 =>
             /\ provider.state.isLoading
             /\ provider.state.error = ""
             /\ ShowsDefaults)
    /\ [](provider.fetches <= 1)
    /\ [][\A p \in SettingsProcs :
             LoadSettles(p) =>
                /\ ~provider'.state.isLoading
                /\ sproc[p].ret.status = "ok" =>
                      /\ provider'.state.id = sproc[p].ret.value.settings.id
                      /\ provider'.state.error = provider.state.error
                /\ sproc[p].ret.status # "ok" =>
                      /\ provider'.state.error = "Error al cargar configuraciones"
                      /\ provider'.state.id = provider.state.id
                      /\ \A f \in ColumnFields \cup {"itemsPerPage"} :
                            provider'.state[f] = provider.state[f]
                      /\ calls = 1 => ShowsDefaults']_vars
    /\ provider.state.isLoading ~> ~provider.state.isLoading

\* The mount effect ran twice and fetched once, and the fetch failed.
C30_Witness ==
    /\ provider.effects = 2
    /\ provider.fetches = 1
    /\ Quiet
    /\ calls = 1
    /\ ~provider.state.isLoading
    /\ provider.state.error = "Error al cargar configuraciones"
    /\ ShowsDefaults

=============================================================================
